---- MODULE Spec2Model ----
(***************************************************************************)
(* Model of the Bitcoin adapter's synchronisation core:                    *)
(*   BlockchainState   (rs/bitcoin/adapter/src/blockchainstate.rs)         *)
(*   BlockchainManager (rs/bitcoin/adapter/src/blockchainmanager.rs)       *)
(* A block hash is an integer; a header is the record of what the code     *)
(* reads from it: its hash, its prev_blockhash and its own work.           *)
(***************************************************************************)
EXTENDS Integers, Sequences, FiniteSets, TLC

(***************************************************************************)
(* Bounds of the model: the headers that exist in the world.  A main chain *)
(* of ChainLen headers on genesis, a fork of ForkLen headers branching     *)
(* from the main-chain header at height ForkAt, one heavy header on        *)
(* genesis, and one header whose parent does not exist.                    *)
(***************************************************************************)
ChainLen == 5
ForkLen == 4
ForkAt == 2
HeavyWork == 3
\* Longest list handed to add_headers.
MaxBatch == 2
\* Peer addresses are 1..MaxPeers.
MaxPeers == 1
\* The clock stops at MaxClock seconds.
MaxClock == 31
\* Handlers that queue a command wait for a tick when this many are queued.
MaxQueue == 1
\* Peer addresses of the block-synchronisation runs are 1..SyncPeers.
SyncPeers == 2
\* The one-branch chains locator_hashes is run on: of every height up to
\* LocatorSmall, and of LocatorSpan heights from LocatorMid and from
\* LocatorLong on (the heights at which the last round of locator_hashes
\* reaches genesis, and at which its last walk stays inside the chain).
LocatorSmall == 40
LocatorMid == 16386
LocatorLong == 32770
LocatorSpan == 8
\* A fork of one header on the main chain's header LocatorForkAt, of work
\* LocatorForkWork: more than any main chain has.
LocatorForkAt == 12
LocatorForkWork == 100000

\* The constants of blockchainmanager.rs.
GETDATA_REQUEST_TIMEOUT_SECS == 30
MAX_HEADERS_SIZE == 2000
MAX_UNSOLICITED_HEADERS == 20
INV_PER_GET_DATA_REQUEST == 8
FUTURE_SUCCESSORS_DEPTH == 5
\* bitcoin::network::message::MAX_INV_SIZE
MAX_INV_SIZE == 50000

\* BlockHash::default(): the all-zero hash, which is also genesis' prev_blockhash.
NullHash == -1
\* The hash of genesis_block(config.network).header.
GenesisHash == 0
\* header.work() of the genesis header.
GenesisWork == 1

MainHash(k) == k
ForkHash(j) == ChainLen + j
HeavyHash == ChainLen + ForkLen + 1
OrphanHash == ChainLen + ForkLen + 2

Hashes == GenesisHash .. OrphanHash

\* header.prev_blockhash of the header with the given hash.
prev_blockhash(hash) ==
    IF hash = GenesisHash THEN NullHash
    ELSE IF hash <= ChainLen THEN hash - 1
    ELSE IF hash = ForkHash(1) THEN MainHash(ForkAt)
    ELSE IF hash <= ForkHash(ForkLen) THEN hash - 1
    ELSE IF hash = HeavyHash THEN GenesisHash
    ELSE NullHash

\* header.work() of the header with the given hash.
header_work(hash) ==
    IF hash = GenesisHash THEN GenesisWork
    ELSE IF hash = HeavyHash THEN HeavyWork
    ELSE 1

\* A BlockHeader, reduced to the fields the code reads.
BlockHeader(hash) ==
    [hash |-> hash, prev_blockhash |-> prev_blockhash(hash), work |-> header_work(hash)]

GenesisHeader == BlockHeader(GenesisHash)

\* The k-th header of a world that is one chain on genesis (the main chain,
\* continued): hash k, on hash k - 1, unit work.
ChainHeader(k) == [hash |-> k, prev_blockhash |-> k - 1, work |-> 1]

AllHeaders == {BlockHeader(h) : h \in Hashes}

\* A Block: its header and whether its transactions hash to the header's
\* merkle root (what Block::check_merkle_root reads).
Block(hash, merkle_ok) == [header |-> BlockHeader(hash), merkle_ok |-> merkle_ok]

\* Sequences over S of length 0..n.
SeqUpTo(S, n) == UNION {[1..k -> S] : k \in 0..n}

\* Option<T>: None is <<>>, Some(x) is <<x>>.
None == <<>>
Some(x) == <<x>>

\* Inventory::Block(hash), and an inventory item of another kind.
InvBlock(hash) == [kind |-> "Block", hash |-> hash]
InvTransaction(hash) == [kind |-> "Transaction", hash |-> hash]

\* The headers, block hashes and blocks handed to the store when all of its
\* operations are exercised: two main-chain headers, the heavy fork off
\* genesis and the header without a parent.
StoreHashes == {GenesisHash, MainHash(1), MainHash(2), HeavyHash, OrphanHash}
StoreHeaders == {BlockHeader(h) : h \in StoreHashes}
StoreBlockHashes == {GenesisHash, MainHash(1), MainHash(2), OrphanHash}
StoreBlocks == {Block(h, m) : h \in StoreBlockHashes, m \in BOOLEAN}

\* What the peers and the client hand to the manager.
Addrs == 1..MaxPeers
MsgHeaderLists ==
    {<<BlockHeader(MainHash(1))>>, <<BlockHeader(MainHash(2))>>,
     <<BlockHeader(MainHash(1)), BlockHeader(MainHash(2))>>}
\* Header messages for the length limits: HeaderPads known headers, then
\* none, one or two headers (the second of them alone has no cached parent
\* at first).
HeaderPads == {0, MAX_UNSOLICITED_HEADERS - 1, MAX_HEADERS_SIZE - 1}
HeaderLists == MsgHeaderLists \cup {<<>>}
MsgInventories == {<<InvBlock(MainHash(2))>>, <<InvTransaction(MainHash(1))>>}
MsgBlocks == {Block(MainHash(1), TRUE), Block(MainHash(1), FALSE)}
ClientRequests == {{GenesisHash}, {MainHash(1)}}
ClockSteps == {GETDATA_REQUEST_TIMEOUT_SECS, GETDATA_REQUEST_TIMEOUT_SECS + 1}

(***************************************************************************)
(* BlockchainState                                                         *)
(***************************************************************************)

\* HashMap::insert: the new value replaces an old one.
map_insert(map, k, v) == (k :> v) @@ map

\* HashMap::remove of every key in ks.
map_remove(map, ks) == [k \in (DOMAIN map) \ ks |-> map[k]]

cached_genesis ==
    [header |-> GenesisHeader, height |-> 0, work |-> GenesisHeader.work]

\* BlockchainState::new
new_blockchain_state ==
    [header_cache |-> (GenesisHash :> cached_genesis),
     block_cache  |-> << >>,
     children     |-> << >>,
     tips         |-> <<cached_genesis>>]

genesis(bc) == cached_genesis

is_header_valid(bc, header) == TRUE

get_header(bc, hash) ==
    IF hash \in DOMAIN bc.header_cache THEN Some(bc.header_cache[hash]) ELSE None

get_children(bc, hash) ==
    IF hash \in DOMAIN bc.children THEN Some(bc.children[hash]) ELSE None

is_block_hash_known(bc, hash) == hash \in DOMAIN bc.header_cache

get_block(bc, hash) ==
    IF hash \in DOMAIN bc.block_cache THEN Some(bc.block_cache[hash]) ELSE None

\* Faulty variant of new_cached_header: the parent's work is not added.
new_cached_header_own_work(prev_header, header) ==
    [header |-> header,
     height |-> prev_header.height + 1,
     work   |-> header.work]

\* The CachedHeader add_header builds from the cached parent.
new_cached_header(prev_header, header) ==
    [header |-> header,
     height |-> prev_header.height + 1,
     work   |-> prev_header.work + header.work]

\* Faulty variant of children_push: the entry is replaced instead of extended.
children_push_replace(children, prev_hash, block_hash) ==
    (prev_hash :> <<block_hash>>) @@ children

\* self.children.entry(prev_hash).or_insert_with(Vec::new).push(block_hash)
children_push(children, prev_hash, block_hash) ==
    IF prev_hash \in DOMAIN children
    THEN [children EXCEPT ![prev_hash] = Append(@, block_hash)]
    ELSE map_insert(children, prev_hash, <<block_hash>>)

\* tips.iter().position(|cached| cached.header.block_hash() == prev_hash);
\* 0 stands for None, positions count from 1.
tips_position(tips, prev_hash) ==
    LET hits == {i \in 1..Len(tips) : tips[i].header.hash = prev_hash}
    IN  IF hits = {} THEN 0 ELSE CHOOSE i \in hits : \A j \in hits : i <= j

\* Faulty variant of update_tips: the new header is always appended.
update_tips_append(tips, prev_hash, cached_header) == Append(tips, cached_header)

\* The tip update of add_header: replace the parent in place, else append.
update_tips(tips, prev_hash, cached_header) ==
    LET idx == tips_position(tips, prev_hash)
    IN  IF idx # 0 THEN [tips EXCEPT ![idx] = cached_header]
        ELSE Append(tips, cached_header)

\* What add_header does once the header is known to be new and its parent
\* cached.
insert_header(bc, header) ==
    LET block_hash == header.hash
        prev_hash  == header.prev_blockhash
        cached_header == new_cached_header(bc.header_cache[prev_hash], header)
    IN  [state |-> [bc EXCEPT
               !.header_cache = map_insert(@, block_hash, cached_header),
               !.children = children_push(@, prev_hash, block_hash),
               !.tips = update_tips(@, prev_hash, cached_header)],
         ok |-> TRUE, tag |-> "HeaderAdded",
         cached |-> Some(cached_header), hash |-> block_hash]

\* Faulty variant of add_header: the header is put in the cache before its parent is
\* looked up.
add_header_insert_first(bc, header) ==
    LET block_hash == header.hash
        prev_hash  == header.prev_blockhash
    IN  IF get_header(bc, block_hash) # None
        THEN [state |-> bc, ok |-> TRUE, tag |-> "HeaderAlreadyExists",
              cached |-> get_header(bc, block_hash), hash |-> block_hash]
        ELSE IF prev_hash \notin DOMAIN bc.header_cache
        THEN [state |-> [bc EXCEPT !.header_cache =
                            map_insert(@, block_hash,
                                [header |-> header, height |-> 0, work |-> header.work])],
              ok |-> FALSE, tag |-> "PrevHeaderNotCached",
              cached |-> None, hash |-> block_hash]
        ELSE insert_header(bc, header)

\* Faulty variant of add_header: a header that is already cached is inserted again.
add_header_no_lookup(bc, header) ==
    IF header.prev_blockhash \notin DOMAIN bc.header_cache
    THEN [state |-> bc, ok |-> FALSE, tag |-> "PrevHeaderNotCached",
          cached |-> None, hash |-> header.hash]
    ELSE insert_header(bc, header)

\* BlockchainState::add_header. The result carries the state afterwards,
\* Ok/Err, the variant, the CachedHeader of an Ok and the hash of an Err.
add_header(bc, header) ==
    LET block_hash == header.hash
        prev_hash  == header.prev_blockhash
    IN  IF get_header(bc, block_hash) # None
        THEN [state |-> bc, ok |-> TRUE, tag |-> "HeaderAlreadyExists",
              cached |-> get_header(bc, block_hash), hash |-> block_hash]
        ELSE IF ~is_header_valid(bc, header)
        THEN [state |-> bc, ok |-> FALSE, tag |-> "InvalidHeader",
              cached |-> None, hash |-> block_hash]
        ELSE IF prev_hash \notin DOMAIN bc.header_cache
        THEN [state |-> bc, ok |-> FALSE, tag |-> "PrevHeaderNotCached",
              cached |-> None, hash |-> block_hash]
        ELSE insert_header(bc, header)

\* Faulty variant of add_headers_loop: a header that fails is skipped and the loop
\* goes on.
RECURSIVE add_headers_loop_skip(_, _, _)
add_headers_loop_skip(bc, headers, added_headers) ==
    IF headers = <<>>
    THEN [state |-> bc, added |-> added_headers, err |-> None]
    ELSE LET r == add_header(bc, Head(headers))
         IN  add_headers_loop_skip(r.state, Tail(headers),
                 IF r.ok /\ r.tag = "HeaderAdded"
                 THEN Append(added_headers, r.cached[1])
                 ELSE added_headers)

RECURSIVE add_headers_loop(_, _, _)
add_headers_loop(bc, headers, added_headers) ==
    IF headers = <<>>
    THEN [state |-> bc, added |-> added_headers, err |-> None]
    ELSE LET r == add_header(bc, Head(headers))
         IN  IF ~r.ok
             THEN [state |-> r.state, added |-> added_headers,
                   err |-> Some([tag |-> r.tag, hash |-> r.hash])]
             ELSE add_headers_loop(r.state, Tail(headers),
                      IF r.tag = "HeaderAdded"
                      THEN Append(added_headers, r.cached[1])
                      ELSE added_headers)

\* BlockchainState::add_headers
add_headers(bc, headers) == add_headers_loop(bc, headers, <<>>)

\* The store add_headers leaves when it is handed ChainHeader(1) ..
\* ChainHeader(n) on a new store.
chain_state(n) ==
    LET cached(k) == IF k = 0 THEN cached_genesis
                     ELSE [header |-> ChainHeader(k), height |-> k,
                           work |-> cached_genesis.work + k]
    IN  [header_cache |-> [k \in 0..n |-> cached(k)],
         block_cache  |-> << >>,
         children     |-> [k \in 0..(n - 1) |-> <<k + 1>>],
         tips         |-> <<cached(n)>>]


\* block.check_merkle_root()
is_block_valid(bc, block) == block.merkle_ok

\* Faulty variant of add_block: the body is cached without the validity check.
add_block_unchecked(bc, block) ==
    LET block_hash == block.header.hash
        result == add_header(bc, block.header)
    IN  IF ~result.ok
        THEN [state |-> result.state, ok |-> FALSE, tag |-> "Header",
              err |-> Some([tag |-> result.tag, hash |-> result.hash]),
              hash |-> block_hash, height |-> 0]
        ELSE [state |-> [result.state EXCEPT
                    !.block_cache = map_insert(@, block_hash, block)],
              ok |-> TRUE, tag |-> "Ok", err |-> None, hash |-> block_hash,
              height |-> result.cached[1].height]

\* Faulty variant of add_block: the body is checked before the header is
\* added.
add_block_check_first(bc, block) ==
    LET block_hash == block.header.hash
        result == add_header(bc, block.header)
    IN  IF ~is_block_valid(bc, block)
        THEN [state |-> bc, ok |-> FALSE, tag |-> "InvalidBlock",
              err |-> None, hash |-> block_hash, height |-> 0]
        ELSE IF ~result.ok
        THEN [state |-> result.state, ok |-> FALSE, tag |-> "Header",
              err |-> Some([tag |-> result.tag, hash |-> result.hash]),
              hash |-> block_hash, height |-> 0]
        ELSE [state |-> [result.state EXCEPT
                    !.block_cache = map_insert(@, block_hash, block)],
              ok |-> TRUE, tag |-> "Ok", err |-> None, hash |-> block_hash,
              height |-> result.cached[1].height]

\* BlockchainState::add_block. tag is "Ok", "InvalidBlock" or "Header" (with
\* the add_header error in err).
add_block(bc, block) ==
    LET block_hash == block.header.hash
        result == add_header(bc, block.header)
    IN  IF ~result.ok
        THEN [state |-> result.state, ok |-> FALSE, tag |-> "Header",
              err |-> Some([tag |-> result.tag, hash |-> result.hash]),
              hash |-> block_hash, height |-> 0]
        ELSE IF ~is_block_valid(result.state, block)
        THEN [state |-> result.state, ok |-> FALSE, tag |-> "InvalidBlock",
              err |-> None, hash |-> block_hash, height |-> 0]
        ELSE [state |-> [result.state EXCEPT
                    !.block_cache = map_insert(@, block_hash, block)],
              ok |-> TRUE, tag |-> "Ok", err |-> None, hash |-> block_hash,
              height |-> result.cached[1].height]

\* Faulty variant of active_tip_loop: a tip of equal work takes over.
RECURSIVE active_tip_loop_last_wins(_, _, _, _)
active_tip_loop_last_wins(tips, i, max_index, max_work) ==
    IF i > Len(tips) THEN max_index
    ELSE IF tips[i].work >= max_work
         THEN active_tip_loop_last_wins(tips, i + 1, i, tips[i].work)
         ELSE active_tip_loop_last_wins(tips, i + 1, max_index, max_work)

\* Faulty variant of active_tip_loop: the work is compared with that of the
\* tip just visited.
RECURSIVE active_tip_loop_previous(_, _, _, _)
active_tip_loop_previous(tips, i, max_index, max_work) ==
    IF i > Len(tips) THEN max_index
    ELSE IF tips[i].work > max_work
         THEN active_tip_loop_previous(tips, i + 1, i, tips[i].work)
         ELSE active_tip_loop_previous(tips, i + 1, max_index, tips[i].work)

\* The loop of get_active_chain_tip from position i on: the position of the
\* first tip whose work exceeds all before it.
RECURSIVE active_tip_loop(_, _, _, _)
active_tip_loop(tips, i, max_index, max_work) ==
    IF i > Len(tips) THEN max_index
    ELSE IF tips[i].work > max_work
         THEN active_tip_loop(tips, i + 1, i, tips[i].work)
         ELSE active_tip_loop(tips, i + 1, max_index, max_work)

\* Faulty variant of get_active_chain_tip: the tallest tip instead of the one with
\* the most work.
get_active_chain_tip_tallest(bc) ==
    LET tallest == {i \in 1..Len(bc.tips) :
                        \A j \in 1..Len(bc.tips) : bc.tips[j].height <= bc.tips[i].height}
    IN  bc.tips[CHOOSE i \in tallest : \A j \in tallest : i <= j]

\* BlockchainState::get_active_chain_tip (Work::default() is 0).
get_active_chain_tip(bc) == bc.tips[active_tip_loop(bc.tips, 1, 1, 0)]

\* Faulty variant of prune_old_blocks: the whole block cache is dropped.
prune_old_blocks_clear(bc, block_hashes) ==
    [bc EXCEPT !.block_cache = << >>]

\* Faulty variant of prune_old_blocks: the headers are removed with the blocks.
prune_old_blocks_and_headers(bc, block_hashes) ==
    [bc EXCEPT !.block_cache = map_remove(@, block_hashes),
               !.header_cache = map_remove(@, block_hashes)]

\* BlockchainState::prune_old_blocks
prune_old_blocks(bc, block_hashes) ==
    [bc EXCEPT !.block_cache = map_remove(@, block_hashes)]

\* The number of rounds of the outer loop of locator_hashes.
LOCATOR_ROUNDS == 22

\* The inner loop of locator_hashes: `step` times to the cached parent; None
\* when a parent is not cached. The walk of `step` parents is made as the
\* walk of the first half followed by the walk of the rest.
RECURSIVE locator_walk(_, _, _)
locator_walk(bc, current_header, step) ==
    IF step = 0 THEN Some(current_header)
    ELSE IF step = 1
    THEN LET prev_hash == current_header.header.prev_blockhash
         IN  IF prev_hash \in DOMAIN bc.header_cache
             THEN Some(bc.header_cache[prev_hash])
             ELSE None
    ELSE LET half == locator_walk(bc, current_header, step \div 2)
         IN  IF half = None THEN None
             ELSE locator_walk(bc, half[1], step - (step \div 2))

\* Faulty variant of locator_loop: one round more.
RECURSIVE locator_loop_extra_round(_, _, _, _, _)
locator_loop_extra_round(bc, i, current_header, step, hashes) ==
    LET genesis_hash == genesis(bc).header.hash
    IN  IF i >= LOCATOR_ROUNDS + 1
        THEN IF hashes[Len(hashes)] # genesis_hash
             THEN Append(hashes, genesis_hash) ELSE hashes
        ELSE LET current_hash == current_header.header.hash
                 pushed == Append(hashes, current_hash)
                 walked == locator_walk(bc, current_header, step)
             IN  IF walked = None
                 THEN IF current_hash # genesis_hash
                      THEN Append(pushed, genesis_hash) ELSE pushed
                 ELSE locator_loop_extra_round(bc, i + 1, walked[1],
                                   IF i >= 7 THEN step * 2 ELSE step, pushed)

\* Faulty variant of locator_loop: the step doubles one round early.
RECURSIVE locator_loop_double_early(_, _, _, _, _)
locator_loop_double_early(bc, i, current_header, step, hashes) ==
    LET genesis_hash == genesis(bc).header.hash
    IN  IF i >= LOCATOR_ROUNDS
        THEN IF hashes[Len(hashes)] # genesis_hash
             THEN Append(hashes, genesis_hash) ELSE hashes
        ELSE LET current_hash == current_header.header.hash
                 pushed == Append(hashes, current_hash)
                 walked == locator_walk(bc, current_header, step)
             IN  IF walked = None
                 THEN IF current_hash # genesis_hash
                      THEN Append(pushed, genesis_hash) ELSE pushed
                 ELSE locator_loop_double_early(bc, i + 1, walked[1],
                                   IF i >= 6 THEN step * 2 ELSE step, pushed)

\* The outer loop of locator_hashes, from round i (0-based) on.
RECURSIVE locator_loop(_, _, _, _, _)
locator_loop(bc, i, current_header, step, hashes) ==
    LET genesis_hash == genesis(bc).header.hash
    IN  IF i >= LOCATOR_ROUNDS
        THEN IF hashes[Len(hashes)] # genesis_hash
             THEN Append(hashes, genesis_hash) ELSE hashes
        ELSE LET current_hash == current_header.header.hash
                 pushed == Append(hashes, current_hash)
                 walked == locator_walk(bc, current_header, step)
             IN  IF walked = None
                 THEN IF current_hash # genesis_hash
                      THEN Append(pushed, genesis_hash) ELSE pushed
                 ELSE locator_loop(bc, i + 1, walked[1],
                                   IF i >= 7 THEN step * 2 ELSE step, pushed)

\* BlockchainState::locator_hashes
locator_hashes(bc) == locator_loop(bc, 0, get_active_chain_tip(bc), 1, <<>>)

(***************************************************************************)
(* BlockchainManager                                                       *)
(* A manager value m is the record of the struct's fields; `now` is the    *)
(* reading of SystemTime::now() during the call, in seconds.               *)
(***************************************************************************)

\* Command { address: Some(addr), message: GetHeaders{locator_hashes, stop_hash} }
GetHeadersCommand(addr, locators) ==
    [address |-> Some(addr), message |-> "GetHeaders",
     locator_hashes |-> locators[1], stop_hash |-> locators[2], inventory |-> {}]

\* Command { address: Some(addr), message: GetData(inventory) }; the order of
\* the sampled items in the message is not kept.
GetDataCommand(addr, inventory) ==
    [address |-> Some(addr), message |-> "GetData",
     locator_hashes |-> <<>>, stop_hash |-> NullHash, inventory |-> inventory]

\* BlockchainManager::new
new_blockchain_manager ==
    [blockchain |-> new_blockchain_state,
     peer_info |-> << >>,
     get_data_request_info |-> << >>,
     inventory_to_be_synced |-> {},
     outgoing_command_queue |-> <<>>]

\* u32::saturating_sub
saturating_sub(a, b) == IF a >= b THEN a - b ELSE 0

\* BlockchainManager::send_getheaders
send_getheaders(m, addr, locators, on_timeout, now) ==
    IF addr \in DOMAIN m.peer_info
    THEN [m EXCEPT
            !.outgoing_command_queue = Append(@, GetHeadersCommand(addr, locators)),
            !.peer_info[addr].last_asked = Some(locators),
            !.peer_info[addr].sent_at = Some(now),
            !.peer_info[addr].on_timeout = on_timeout]
    ELSE m

\* Faulty variant of inv_scan: the first unknown block is kept.
RECURSIVE inv_scan_first_unknown(_, _, _, _, _)
inv_scan_first_unknown(bc, inventory, i, tip, last_block) ==
    IF i > Len(inventory) THEN <<tip, last_block>>
    ELSE IF inventory[i].kind = "Block"
         THEN inv_scan_first_unknown(bc, inventory, i + 1, inventory[i].hash,
                       IF ~is_block_hash_known(bc, inventory[i].hash) /\ last_block = None
                       THEN Some(inventory[i].hash) ELSE last_block)
         ELSE inv_scan_first_unknown(bc, inventory, i + 1, tip, last_block)

\* The loop of received_inv_message over the items from position i on:
\* <<peer.tip, last_block>>.
RECURSIVE inv_scan(_, _, _, _, _)
inv_scan(bc, inventory, i, tip, last_block) ==
    IF i > Len(inventory) THEN <<tip, last_block>>
    ELSE IF inventory[i].kind = "Block"
         THEN inv_scan(bc, inventory, i + 1, inventory[i].hash,
                       IF ~is_block_hash_known(bc, inventory[i].hash)
                       THEN Some(inventory[i].hash) ELSE last_block)
         ELSE inv_scan(bc, inventory, i + 1, tip, last_block)

\* BlockchainManager::received_inv_message. `pad` items that are not blocks
\* precede `inventory` in the message.
received_inv_message(m, addr, pad, inventory, now) ==
    IF pad + Len(inventory) > MAX_INV_SIZE
    THEN [state |-> m, ok |-> FALSE, tag |-> "TooMuchInventory"]
    ELSE IF addr \notin DOMAIN m.peer_info
    THEN [state |-> m, ok |-> FALSE, tag |-> "UnknownPeer"]
    ELSE LET scan == inv_scan(m.blockchain, inventory, 1, m.peer_info[addr].tip, None)
             m1 == [m EXCEPT !.peer_info[addr].tip = scan[1]]
             last_block == scan[2]
         IN  IF last_block # None
             THEN [state |-> send_getheaders(m1, addr,
                                <<locator_hashes(m1.blockchain), last_block[1]>>,
                                "Ignore", now),
                   ok |-> TRUE, tag |-> "Ok"]
             ELSE [state |-> m1, ok |-> TRUE, tag |-> "Ok"]

\* Faulty variant of headers_limit_error: the limits are off by one.
headers_limit_error_off_by_one(len, peer) ==
    IF len >= MAX_UNSOLICITED_HEADERS /\ peer.last_asked = None
    THEN Some("ReceivedTooManyUnsolicitedHeaders")
    ELSE IF len >= MAX_HEADERS_SIZE
    THEN Some("ReceivedTooManyHeaders")
    ELSE None

\* Faulty variant of headers_limit_error: the unsolicited limit is applied
\* to every peer.
headers_limit_error_always_unsolicited(len, peer) ==
    IF len > MAX_UNSOLICITED_HEADERS
    THEN Some("ReceivedTooManyUnsolicitedHeaders")
    ELSE None

\* The two length checks of received_headers_message on a message of len
\* headers from `peer`: the error returned, if any.
headers_limit_error(len, peer) ==
    IF len > MAX_UNSOLICITED_HEADERS /\ peer.last_asked = None
    THEN Some("ReceivedTooManyUnsolicitedHeaders")
    ELSE IF len > MAX_HEADERS_SIZE
    THEN Some("ReceivedTooManyHeaders")
    ELSE None

\* Faulty variant of update_peer_tip: the height is not compared.
update_peer_tip_always(peer, maybe_last_header) ==
    IF maybe_last_header # None
    THEN [peer EXCEPT !.tip = maybe_last_header[1].header.hash,
                      !.height = maybe_last_header[1].height]
    ELSE peer

\* received_headers_message: the peer's tip and height move to the last
\* header when that one is higher.
update_peer_tip(peer, maybe_last_header) ==
    IF maybe_last_header # None /\ maybe_last_header[1].height > peer.height
    THEN [peer EXCEPT !.tip = maybe_last_header[1].header.hash,
                      !.height = maybe_last_header[1].height]
    ELSE peer

\* Faulty variant of continuation_locators: the store's locator hashes.
continuation_locators_full(bc, last) == <<locator_hashes(bc), NullHash>>

\* The locators received_headers_message asks with after a full message:
\* (vec![last.header.block_hash()], BlockHash::default()).
continuation_locators(bc, last) == << <<last.header.hash>>, NullHash >>

\* Faulty variant of corrective_locators: the locator hashes of the store
\* before the headers of the message were added.
corrective_locators_stale(bc_before, bc, stop_hash) == <<locator_hashes(bc_before), stop_hash>>

\* The locators received_headers_message asks with after PrevHeaderNotCached:
\* (self.blockchain.locator_hashes(), stop_hash).
corrective_locators(bc_before, bc, stop_hash) == <<locator_hashes(bc), stop_hash>>

\* BlockchainManager::received_headers_message. The message is `pad` copies of
\* the genesis header followed by `headers`; add_headers answers
\* HeaderAlreadyExists to each copy and changes nothing, so only `headers`
\* is handed to it.
received_headers_message(m, addr, pad, headers, now) ==
    LET len == pad + Len(headers)
    IN  IF addr \notin DOMAIN m.peer_info
        THEN [state |-> m, ok |-> FALSE, tag |-> "UnknownPeer"]
        ELSE IF headers_limit_error(len, m.peer_info[addr]) # None
        THEN [state |-> m, ok |-> FALSE,
              tag |-> headers_limit_error(len, m.peer_info[addr])[1]]
        ELSE IF len = 0
        THEN [state |-> m, ok |-> TRUE, tag |-> "Ok"]
        ELSE
        LET last_block_hash ==
                IF headers # <<>> THEN headers[Len(headers)].hash ELSE GenesisHeader.hash
            r  == add_headers(m.blockchain, headers)
            bc == r.state
            maybe_last_header ==
                IF r.added # <<>> THEN Some(r.added[Len(r.added)])
                ELSE get_header(bc, last_block_hash)
            peer == m.peer_info[addr]
            m1 == [m EXCEPT !.blockchain = bc,
                            !.peer_info[addr] = update_peer_tip(peer, maybe_last_header)]
            maybe_locators ==
                IF r.err # None /\ r.err[1].tag = "PrevHeaderNotCached"
                THEN Some(corrective_locators(m.blockchain, bc, r.err[1].hash))
                ELSE IF maybe_last_header # None /\ ~(len < MAX_HEADERS_SIZE)
                THEN Some(continuation_locators(bc, maybe_last_header[1]))
                ELSE None
        IN  IF r.err # None /\ r.err[1].tag = "InvalidHeader"
            THEN [state |-> m1, ok |-> FALSE, tag |-> "ReceivedInvalidHeader"]
            ELSE IF maybe_locators # None
            THEN [state |-> send_getheaders(m1, addr, maybe_locators[1], "Ignore", now),
                  ok |-> TRUE, tag |-> "Ok"]
            ELSE [state |-> [m1 EXCEPT !.peer_info[addr].last_asked = None],
                  ok |-> TRUE, tag |-> "Ok"]

\* Faulty variant of remove_request_of_block: the sender's count goes down
\* whoever the request was sent to.
remove_request_of_block_any_peer(m, addr, inv) ==
    [m EXCEPT
        !.peer_info[addr].num_of_outstanding_get_data_requests =
            IF inv \in DOMAIN m.get_data_request_info
            THEN saturating_sub(@, 1) ELSE @,
        !.get_data_request_info = map_remove(@, {inv})]

\* Faulty variant of remove_request_of_block: the request stays recorded.
remove_request_of_block_count_only(m, addr, inv) ==
    [m EXCEPT
        !.peer_info[addr].num_of_outstanding_get_data_requests =
            IF inv \in DOMAIN m.get_data_request_info
               /\ m.get_data_request_info[inv].socket = addr
            THEN saturating_sub(@, 1) ELSE @]

\* The Ok branch of received_block_message: the getdata request for the
\* block is removed, and counted off the sender if it was sent to the sender.
remove_request_of_block(m, addr, inv) ==
    LET maybe_request_info ==
            IF inv \in DOMAIN m.get_data_request_info
            THEN Some(m.get_data_request_info[inv]) ELSE None
    IN  [m EXCEPT
            !.peer_info[addr].num_of_outstanding_get_data_requests =
                IF maybe_request_info # None /\ maybe_request_info[1].socket = addr
                THEN saturating_sub(@, 1) ELSE @,
            !.get_data_request_info = map_remove(@, {inv})]

\* Faulty variant of received_block_message: the request is removed before
\* the block is added.
received_block_message_eager(m, addr, block) ==
    IF addr \notin DOMAIN m.peer_info
    THEN [state |-> m, ok |-> FALSE, tag |-> "UnknownPeer"]
    ELSE
    LET inv == InvBlock(block.header.hash)
        m1 == remove_request_of_block(m, addr, inv)
        r == add_block(m.blockchain, block)
    IN  IF r.ok
        THEN [state |-> [m1 EXCEPT !.blockchain = r.state], ok |-> TRUE, tag |-> "Ok"]
        ELSE [state |-> [m1 EXCEPT !.blockchain = r.state],
              ok |-> FALSE, tag |-> "BlockNotAdded"]

\* BlockchainManager::received_block_message
received_block_message(m, addr, block) ==
    IF addr \notin DOMAIN m.peer_info
    THEN [state |-> m, ok |-> FALSE, tag |-> "UnknownPeer"]
    ELSE
    LET inv == InvBlock(block.header.hash)
        r == add_block(m.blockchain, block)
    IN  IF r.ok
        THEN [state |-> remove_request_of_block([m EXCEPT !.blockchain = r.state], addr, inv),
              ok |-> TRUE, tag |-> "Ok"]
        ELSE [state |-> [m EXCEPT !.blockchain = r.state],
              ok |-> FALSE, tag |-> "BlockNotAdded"]

\* The PeerInfo add_peer inserts.
new_peer_info(bc, addr) ==
    [socket |-> addr,
     height |-> genesis(bc).height,
     tip |-> genesis(bc).header.hash,
     last_asked |-> None,
     sent_at |-> None,
     on_timeout |-> "Ignore",
     num_of_outstanding_get_data_requests |-> 0]

\* Faulty variant of add_peer: a tracked peer is set up again.
add_peer_again(m, addr, now) ==
    LET initial_hash == genesis(m.blockchain).header.hash
        m1 == [m EXCEPT !.peer_info = map_insert(@, addr, new_peer_info(m.blockchain, addr))]
    IN  send_getheaders(m1, addr, << <<initial_hash>>, NullHash >>, "Disconnect", now)

\* BlockchainManager::add_peer
add_peer(m, addr, now) ==
    IF addr \in DOMAIN m.peer_info THEN m
    ELSE LET initial_hash == genesis(m.blockchain).header.hash
             m1 == [m EXCEPT !.peer_info = map_insert(@, addr, new_peer_info(m.blockchain, addr))]
         IN  send_getheaders(m1, addr, << <<initial_hash>>, NullHash >>, "Disconnect", now)

\* Faulty variant of remove_peer: the getdata requests sent to the peer are
\* kept.
remove_peer_keep_requests(m, addr) ==
    [m EXCEPT !.peer_info = map_remove(@, {addr})]

\* Faulty variant of remove_peer: every getdata request is dropped.
remove_peer_drop_all(m, addr) ==
    [m EXCEPT !.peer_info = map_remove(@, {addr}),
              !.get_data_request_info = << >>]

\* Faulty variant of remove_peer: the requests sent to the peer are the
\* ones retained.
remove_peer_retain_own(m, addr) ==
    [m EXCEPT
        !.peer_info = map_remove(@, {addr}),
        !.get_data_request_info =
            map_remove(@, {inv \in DOMAIN @ : @[inv].socket # addr})]

\* BlockchainManager::remove_peer
remove_peer(m, addr) ==
    [m EXCEPT
        !.peer_info = map_remove(@, {addr}),
        !.get_data_request_info =
            map_remove(@, {inv \in DOMAIN @ : @[inv].socket = addr})]

\* BlockchainManager::filter_expired_get_data_requests
filter_expired_get_data_requests(m, now) ==
    LET info == m.get_data_request_info
        expired == {inv \in DOMAIN info :
                        info[inv].sent_at + GETDATA_REQUEST_TIMEOUT_SECS < now}
        n(addr) == Cardinality({inv \in expired : info[inv].socket = addr})
    IN  [m EXCEPT
            !.peer_info = [a \in DOMAIN @ |->
                [@[a] EXCEPT !.num_of_outstanding_get_data_requests =
                                 saturating_sub(@, n(a))]],
            !.get_data_request_info = map_remove(@, expired)]

\* Faulty variant of peer_orders: the peers are not sorted.
peer_orders_unsorted(peer_info) ==
    LET n == Cardinality(DOMAIN peer_info)
    IN  {o \in [1..n -> DOMAIN peer_info] : \A i, j \in 1..n : i # j => o[i] # o[j]}

\* The orders in which sync_blocks may visit the peers: the HashMap's
\* values in any order, sorted (stably) by the outstanding count.
peer_orders(peer_info) ==
    LET n == Cardinality(DOMAIN peer_info)
    IN  {o \in [1..n -> DOMAIN peer_info] :
            /\ \A i, j \in 1..n : i # j => o[i] # o[j]
            /\ \A i, j \in 1..n : i < j =>
                   peer_info[o[i]].num_of_outstanding_get_data_requests
                       <= peer_info[o[j]].num_of_outstanding_get_data_requests}

\* Faulty variant of choose_multiple: one item less than asked for.
choose_multiple_short(items, amount) ==
    LET want == IF amount > 1 THEN amount - 1 ELSE amount
        k == IF want < Cardinality(items) THEN want ELSE Cardinality(items)
    IN  {sel \in SUBSET items : Cardinality(sel) = k}

\* IteratorRandom::choose_multiple: `amount` items of the set, or all of
\* them when there are fewer; every sample is possible.
choose_multiple(items, amount) ==
    LET k == IF amount < Cardinality(items) THEN amount ELSE Cardinality(items)
    IN  {sel \in SUBSET items : Cardinality(sel) = k}

\* What sync_blocks does for one peer once the inventory is selected.
send_getdata(m, addr, selected_inventory, now) ==
    [m EXCEPT
        !.outgoing_command_queue = Append(@, GetDataCommand(addr, selected_inventory)),
        !.peer_info[addr].num_of_outstanding_get_data_requests =
            @ + Cardinality(selected_inventory),
        !.get_data_request_info =
            [inv \in selected_inventory |->
                [socket |-> addr, inventory |-> inv, sent_at |-> now,
                 on_timeout |-> "Ignore"]] @@ @]

\* Faulty variant of sync_blocks_loop: every peer is asked for a full
\* request, whatever it has outstanding.
RECURSIVE sync_blocks_loop_full_request(_, _, _, _)
sync_blocks_loop_full_request(m, order, inventory_to_be_synced, now) ==
    IF order = <<>>
    THEN {[m EXCEPT !.inventory_to_be_synced = inventory_to_be_synced]}
    ELSE LET addr == Head(order)
         IN  UNION {
                 IF selected_inventory = {}
                 THEN {[m EXCEPT !.inventory_to_be_synced = inventory_to_be_synced]}
                 ELSE sync_blocks_loop_full_request(
                          send_getdata(m, addr, selected_inventory, now),
                          Tail(order),
                          inventory_to_be_synced \ selected_inventory, now)
                 : selected_inventory \in
                       choose_multiple(inventory_to_be_synced, INV_PER_GET_DATA_REQUEST)}

\* The loop of sync_blocks over the sorted peers: the managers it may end in.
RECURSIVE sync_blocks_loop(_, _, _, _)
sync_blocks_loop(m, order, inventory_to_be_synced, now) ==
    IF order = <<>>
    THEN {[m EXCEPT !.inventory_to_be_synced = inventory_to_be_synced]}
    ELSE LET addr == Head(order)
             num_requests_to_be_sent ==
                 saturating_sub(INV_PER_GET_DATA_REQUEST,
                     m.peer_info[addr].num_of_outstanding_get_data_requests)
         IN  UNION {
                 IF selected_inventory = {}
                 THEN {[m EXCEPT !.inventory_to_be_synced = inventory_to_be_synced]}
                 ELSE sync_blocks_loop(send_getdata(m, addr, selected_inventory, now),
                                       Tail(order),
                                       inventory_to_be_synced \ selected_inventory, now)
                 : selected_inventory \in
                       choose_multiple(inventory_to_be_synced, num_requests_to_be_sent)}

\* Faulty variant of sync_blocks: the inventory that has a request
\* recorded is not filtered out.
sync_blocks_no_filter(m, now) ==
    IF m.inventory_to_be_synced = {} THEN {m}
    ELSE LET m1 == filter_expired_get_data_requests(m, now)
         IN  UNION {sync_blocks_loop(m1, order, m1.inventory_to_be_synced, now)
                        : order \in peer_orders(m1.peer_info)}

\* BlockchainManager::sync_blocks: the managers it may end in.
sync_blocks(m, now) ==
    IF m.inventory_to_be_synced = {} THEN {m}
    ELSE LET m1 == filter_expired_get_data_requests(m, now)
             inventory_to_be_synced ==
                 m1.inventory_to_be_synced \ DOMAIN m1.get_data_request_info
         IN  UNION {sync_blocks_loop(m1, order, inventory_to_be_synced, now)
                        : order \in peer_orders(m1.peer_info)}

\* Faulty variant of remove_peers: the peers stay.
remove_peers_none(m, addrs) == m

\* The loop of tick over the tracked addresses that are not connected.
RECURSIVE remove_peers(_, _)
remove_peers(m, addrs) ==
    IF addrs = {} THEN m
    ELSE LET addr == CHOOSE a \in addrs : TRUE
         IN  remove_peers(remove_peer(m, addr), addrs \ {addr})

RECURSIVE add_peers(_, _, _)
add_peers(m, active_connections, now) ==
    IF active_connections = <<>> THEN m
    ELSE add_peers(IF Head(active_connections) \notin DOMAIN m.peer_info
                   THEN add_peer(m, Head(active_connections), now) ELSE m,
                   Tail(active_connections), now)

Range(seq) == {seq[i] : i \in 1..Len(seq)}

\* Faulty variant of tick: the queue is not cleared after the commands are
\* sent.
tick_keep_queue(m, active_connections, now) ==
    LET inactive == {addr \in DOMAIN m.peer_info : addr \notin Range(active_connections)}
        m1 == remove_peers(m, inactive)
        m2 == add_peers(m1, active_connections, now)
    IN  {[state |-> m3, sent |-> m3.outgoing_command_queue]
             : m3 \in sync_blocks(m2, now)}

\* BlockchainManager::tick with channel.available_connections() =
\* active_connections: the managers it may end in, each with the commands
\* handed to channel.send, in order.
tick(m, active_connections, now) ==
    LET inactive == {addr \in DOMAIN m.peer_info : addr \notin Range(active_connections)}
        m1 == remove_peers(m, inactive)
        m2 == add_peers(m1, active_connections, now)
    IN  {[state |-> [m3 EXCEPT !.outgoing_command_queue = <<>>],
          sent |-> m3.outgoing_command_queue] : m3 \in sync_blocks(m2, now)}

\* The loop of get_successor_block_hashes: `depth` rounds of adding the
\* children of everything found so far.
RECURSIVE successors_loop(_, _, _)
successors_loop(bc, result, depth) ==
    IF depth = 0 THEN result
    ELSE LET successors ==
                 UNION {Range(bc.children[h]) : h \in result \cap DOMAIN bc.children}
         IN  successors_loop(bc, result \cup successors, depth - 1)

\* Faulty variant of get_successor_block_hashes: one round too few for
\* depths above 1.
get_successor_block_hashes_shallow(bc, block_hashes, depth) ==
    successors_loop(bc, block_hashes, IF depth <= 1 THEN 1 ELSE depth - 1) \ block_hashes

\* BlockchainManager::get_successor_block_hashes
get_successor_block_hashes(bc, block_hashes, depth) ==
    successors_loop(bc, block_hashes, IF depth < 1 THEN 1 ELSE depth) \ block_hashes

\* Faulty variant of handle_client_request: a cached block of any of the
\* future successors is returned.
handle_client_request_any_depth(m, block_hashes) ==
    LET future_successor_block_hashes ==
            get_successor_block_hashes(m.blockchain, block_hashes, FUTURE_SUCCESSORS_DEPTH)
        bc == prune_old_blocks(m.blockchain, block_hashes)
        successor_blocks ==
            {bc.block_cache[h] : h \in future_successor_block_hashes \cap DOMAIN bc.block_cache}
        uncached == future_successor_block_hashes \ {b.header.hash : b \in successor_blocks}
        m1 == [m EXCEPT !.blockchain = bc,
                        !.inventory_to_be_synced = @ \cup {InvBlock(h) : h \in uncached}]
    IN  IF successor_blocks = {}
        THEN {[state |-> m1, block |-> None]}
        ELSE {[state |-> m1, block |-> Some(b)] : b \in successor_blocks}

\* BlockchainManager::handle_client_request: the managers it may end in, each
\* with the block returned. The first of successor_blocks is the first
\* cached successor in the HashSet's iteration order: any of them.
handle_client_request(m, block_hashes) ==
    LET immediate_successor_block_hashes ==
            get_successor_block_hashes(m.blockchain, block_hashes, 1)
        future_successor_block_hashes ==
            get_successor_block_hashes(m.blockchain, block_hashes, FUTURE_SUCCESSORS_DEPTH)
        bc == prune_old_blocks(m.blockchain, block_hashes)
        successor_blocks ==
            {bc.block_cache[h] : h \in immediate_successor_block_hashes \cap DOMAIN bc.block_cache}
        uncached == future_successor_block_hashes \ {b.header.hash : b \in successor_blocks}
        m1 == [m EXCEPT !.blockchain = bc,
                        !.inventory_to_be_synced = @ \cup {InvBlock(h) : h \in uncached}]
    IN  IF successor_blocks = {}
        THEN {[state |-> m1, block |-> None]}
        ELSE {[state |-> m1, block |-> Some(b)] : b \in successor_blocks}

(***************************************************************************)
(* State                                                                   *)
(***************************************************************************)
VARIABLES
    blockchain,                 \* BlockchainManager.blockchain
    peer_info,                  \* BlockchainManager.peer_info
    get_data_request_info,      \* BlockchainManager.get_data_request_info
    inventory_to_be_synced,     \* BlockchainManager.inventory_to_be_synced
    outgoing_command_queue,     \* BlockchainManager.outgoing_command_queue
    clock,                      \* SystemTime::now(), in seconds
    last                        \* the last call: operation, arguments, what it returned

vars == <<blockchain, peer_info, get_data_request_info, inventory_to_be_synced,
          outgoing_command_queue, clock, last>>

manager_vars == <<peer_info, get_data_request_info, inventory_to_be_synced,
                  outgoing_command_queue, clock>>

\* The manager the variables hold.
Manager ==
    [blockchain |-> blockchain,
     peer_info |-> peer_info,
     get_data_request_info |-> get_data_request_info,
     inventory_to_be_synced |-> inventory_to_be_synced,
     outgoing_command_queue |-> outgoing_command_queue]

SetManager(m) ==
    /\ blockchain' = m.blockchain
    /\ peer_info' = m.peer_info
    /\ get_data_request_info' = m.get_data_request_info
    /\ inventory_to_be_synced' = m.inventory_to_be_synced
    /\ outgoing_command_queue' = m.outgoing_command_queue

\* The record of a call: the operation, its arguments (headers, blocks,
\* hashes, addr, pad, inventory, conns) and what it returned. Every call
\* fills every field, so that two records can always be compared.
\*   repeats:       when the call repeats the call before it, arguments included,
\*                  the tag that call returned; "" otherwise
\*   store_changed: the call changed the BlockchainState
NoCall ==
    [op |-> "new", headers |-> <<>>, blocks |-> <<>>, hashes |-> {}, addr |-> 0,
     pad |-> 0, inventory |-> <<>>, conns |-> <<>>,
     repeats |-> "", store_changed |-> FALSE, requests_changed |-> FALSE,
     ok |-> TRUE, tag |-> "Ok", cached |-> None, added |-> <<>>, err |-> None,
     height |-> 0, block |-> None, sent |-> <<>>, locators |-> <<>>]

SameCall(a, b) ==
    /\ a.op = b.op /\ a.headers = b.headers /\ a.blocks = b.blocks
    /\ a.hashes = b.hashes /\ a.addr = b.addr /\ a.pad = b.pad
    /\ a.inventory = b.inventory /\ a.conns = b.conns

\* last' for the call c that leaves the store as bc.
Record(c, bc) ==
    last' = [c EXCEPT !.repeats = IF SameCall(last, c) THEN last.tag ELSE "",
                      !.store_changed = (bc # blockchain)]

Init ==
    /\ blockchain = new_blockchain_manager.blockchain
    /\ peer_info = new_blockchain_manager.peer_info
    /\ get_data_request_info = new_blockchain_manager.get_data_request_info
    /\ inventory_to_be_synced = new_blockchain_manager.inventory_to_be_synced
    /\ outgoing_command_queue = new_blockchain_manager.outgoing_command_queue
    /\ clock = 0
    /\ last = NoCall

(***************************************************************************)
(* The operations of BlockchainState, called on the manager's store.       *)
(***************************************************************************)
AddHeader(header) ==
    LET r == add_header(blockchain, header)
    IN  /\ blockchain' = r.state
        /\ Record([NoCall EXCEPT !.op = "add_header", !.headers = <<header>>,
                      !.ok = r.ok, !.tag = r.tag, !.cached = r.cached,
                      !.err = IF r.ok THEN None ELSE Some([tag |-> r.tag, hash |-> r.hash])],
                  r.state)
        /\ UNCHANGED manager_vars

AddHeaders(headers) ==
    LET r == add_headers(blockchain, headers)
    IN  /\ blockchain' = r.state
        /\ Record([NoCall EXCEPT !.op = "add_headers", !.headers = headers,
                      !.ok = (r.err = None), !.added = r.added, !.err = r.err],
                  r.state)
        /\ UNCHANGED manager_vars

AddBlock(block) ==
    LET r == add_block(blockchain, block)
    IN  /\ blockchain' = r.state
        /\ Record([NoCall EXCEPT !.op = "add_block", !.blocks = <<block>>,
                      !.ok = r.ok, !.tag = r.tag, !.err = r.err, !.height = r.height],
                  r.state)
        /\ UNCHANGED manager_vars

PruneOldBlocks(block_hashes) ==
    LET bc == prune_old_blocks(blockchain, block_hashes)
    IN  /\ blockchain' = bc
        /\ Record([NoCall EXCEPT !.op = "prune_old_blocks", !.hashes = block_hashes], bc)
        /\ UNCHANGED manager_vars

\* The store alone, header by header, over every header of the world.
NextChain == \E header \in AllHeaders : AddHeader(header)

SpecChain == Init /\ [][NextChain]_vars

\* The store alone, all of its mutating operations.
NextStore ==
    \/ \E header \in StoreHeaders : AddHeader(header)
    \/ \E headers \in SeqUpTo(StoreHeaders, MaxBatch) : AddHeaders(headers)
    \/ \E block \in StoreBlocks : AddBlock(block)
    \/ \E block_hashes \in SUBSET StoreBlockHashes : PruneOldBlocks(block_hashes)

SpecStore == Init /\ [][NextStore]_vars

\* The store alone, holding one long chain: the chain grows by one header,
\* or locator_hashes is called.
LocatorHashes ==
    /\ Record([NoCall EXCEPT !.op = "locator_hashes",
                             !.locators = locator_hashes(blockchain)], blockchain)
    /\ UNCHANGED <<blockchain, manager_vars>>

ExtendChain ==
    LET k == get_active_chain_tip(blockchain).height + 1
    IN  /\ \/ k <= LocatorSmall
           \/ k > LocatorMid /\ k <= LocatorMid + LocatorSpan
           \/ k > LocatorLong /\ k <= LocatorLong + LocatorSpan
        /\ AddHeader(ChainHeader(k))

InitLocator ==
    /\ blockchain \in {chain_state(0), chain_state(LocatorMid), chain_state(LocatorLong)}
    /\ peer_info = new_blockchain_manager.peer_info
    /\ get_data_request_info = new_blockchain_manager.get_data_request_info
    /\ inventory_to_be_synced = new_blockchain_manager.inventory_to_be_synced
    /\ outgoing_command_queue = new_blockchain_manager.outgoing_command_queue
    /\ clock = 0
    /\ last = NoCall

NextLocator == ExtendChain \/ LocatorHashes

SpecLocator == InitLocator /\ [][NextLocator]_vars

(***************************************************************************)
(* The operations of BlockchainManager.                                    *)
(***************************************************************************)
AddPeer(addr) ==
    LET m == add_peer(Manager, addr, clock)
    IN  /\ SetManager(m)
        /\ Record([NoCall EXCEPT !.op = "add_peer", !.addr = addr], m.blockchain)
        /\ UNCHANGED clock

RemovePeer(addr) ==
    LET m == remove_peer(Manager, addr)
    IN  /\ SetManager(m)
        /\ Record([NoCall EXCEPT !.op = "remove_peer", !.addr = addr,
                      !.requests_changed =
                          (m.get_data_request_info # get_data_request_info)],
                  m.blockchain)
        /\ UNCHANGED clock

\* process_event with an Inv message from addr
ReceivedInvMessage(addr, pad, inventory) ==
    LET r == received_inv_message(Manager, addr, pad, inventory, clock)
    IN  /\ SetManager(r.state)
        /\ Record([NoCall EXCEPT !.op = "received_inv_message", !.addr = addr,
                      !.pad = pad, !.inventory = inventory, !.ok = r.ok, !.tag = r.tag],
                  r.state.blockchain)
        /\ UNCHANGED clock

\* process_event with a Headers message from addr
ReceivedHeadersMessage(addr, pad, headers) ==
    LET r == received_headers_message(Manager, addr, pad, headers, clock)
    IN  /\ SetManager(r.state)
        /\ Record([NoCall EXCEPT !.op = "received_headers_message", !.addr = addr,
                      !.pad = pad, !.headers = headers, !.ok = r.ok, !.tag = r.tag],
                  r.state.blockchain)
        /\ UNCHANGED clock

\* process_event with a Block message from addr
ReceivedBlockMessage(addr, block) ==
    LET r == received_block_message(Manager, addr, block)
    IN  /\ SetManager(r.state)
        /\ Record([NoCall EXCEPT !.op = "received_block_message", !.addr = addr,
                      !.blocks = <<block>>, !.ok = r.ok, !.tag = r.tag,
                      !.requests_changed =
                          (r.state.get_data_request_info # get_data_request_info)],
                  r.state.blockchain)
        /\ UNCHANGED clock

Tick(active_connections) ==
    \E r \in tick(Manager, active_connections, clock) :
        /\ SetManager(r.state)
        /\ Record([NoCall EXCEPT !.op = "tick", !.conns = active_connections,
                      !.sent = r.sent,
                      !.requests_changed =
                          (r.state.get_data_request_info # get_data_request_info)],
                  r.state.blockchain)
        /\ UNCHANGED clock

HandleClientRequest(block_hashes) ==
    \E r \in handle_client_request(Manager, block_hashes) :
        /\ SetManager(r.state)
        /\ Record([NoCall EXCEPT !.op = "handle_client_request", !.hashes = block_hashes,
                      !.block = r.block],
                  r.state.blockchain)
        /\ UNCHANGED clock

\* Time passes.
AdvanceClock(secs) ==
    /\ clock + secs <= MaxClock
    /\ clock' = clock + secs
    /\ UNCHANGED <<blockchain, peer_info, get_data_request_info, inventory_to_be_synced,
                   outgoing_command_queue, last>>

\* Vectors of distinct addresses: channel.available_connections().
Connections ==
    {c \in SeqUpTo(Addrs, MaxPeers) : \A i, j \in 1..Len(c) : i # j => c[i] # c[j]}

Next ==
    \/ \E addr \in Addrs :
           Len(outgoing_command_queue) < MaxQueue /\ AddPeer(addr)
    \/ \E addr \in Addrs : RemovePeer(addr)
    \/ \E addr \in Addrs, inventory \in MsgInventories :
           Len(outgoing_command_queue) < MaxQueue /\ ReceivedInvMessage(addr, 0, inventory)
    \/ \E addr \in Addrs, headers \in MsgHeaderLists :
           Len(outgoing_command_queue) < MaxQueue /\ ReceivedHeadersMessage(addr, 0, headers)
    \/ \E addr \in Addrs, block \in MsgBlocks : ReceivedBlockMessage(addr, block)
    \/ \E active_connections \in Connections : Tick(active_connections)
    \/ \E block_hashes \in ClientRequests : HandleClientRequest(block_hashes)
    \/ \E secs \in ClockSteps : AdvanceClock(secs)

Spec == Init /\ [][Next]_vars

\* The manager and one peer that sends header messages of every length
\* around the two limits.
NextHeaders ==
    \/ \E addr \in Addrs :
           Len(outgoing_command_queue) < MaxQueue /\ AddPeer(addr)
    \/ \E addr \in Addrs, inventory \in MsgInventories :
           Len(outgoing_command_queue) < MaxQueue /\ ReceivedInvMessage(addr, 0, inventory)
    \/ \E addr \in Addrs, pad \in HeaderPads, headers \in HeaderLists :
           Len(outgoing_command_queue) < MaxQueue
               /\ ReceivedHeadersMessage(addr, pad, headers)
    \/ \E active_connections \in Connections : Tick(active_connections)

SpecHeaders == Init /\ [][NextHeaders]_vars

\* Inv messages: InvPads items that are not blocks, then blocks that are
\* unknown (the orphan always, the main chain's headers until they are
\* added) or known, and a transaction.
InvPads == {0, MAX_INV_SIZE - 1}

InvLists ==
    {<<InvBlock(MainHash(1))>>,
     <<InvBlock(OrphanHash), InvBlock(MainHash(2))>>,
     <<InvBlock(MainHash(2)), InvBlock(GenesisHash)>>,
     <<InvBlock(GenesisHash), InvTransaction(OrphanHash)>>}

NextInv ==
    \/ \E addr \in Addrs :
           Len(outgoing_command_queue) < MaxQueue /\ AddPeer(addr)
    \/ \E addr \in Addrs, pad \in InvPads, inventory \in InvLists :
           Len(outgoing_command_queue) < MaxQueue
               /\ ReceivedInvMessage(addr, pad, inventory)
    \/ \E addr \in Addrs, headers \in MsgHeaderLists :
           Len(outgoing_command_queue) < MaxQueue /\ ReceivedHeadersMessage(addr, 0, headers)
    \/ \E active_connections \in Connections : Tick(active_connections)
    \/ \E secs \in ClockSteps : AdvanceClock(secs)

SpecInv == Init /\ [][NextInv]_vars

\* Header messages with a gap: a header whose parent no store has, alone
\* and after a header that can be added, and the second header of the main
\* chain after the fork header on genesis.
GappedLists ==
    {<<BlockHeader(OrphanHash)>>,
     <<BlockHeader(MainHash(1)), BlockHeader(OrphanHash)>>,
     <<BlockHeader(HeavyHash), BlockHeader(MainHash(2))>>}

NextGapped ==
    \/ NextHeaders
    \/ \E addr \in Addrs, pad \in HeaderPads, headers \in GappedLists :
           Len(outgoing_command_queue) < MaxQueue
               /\ ReceivedHeadersMessage(addr, pad, headers)

SpecGapped == Init /\ [][NextGapped]_vars

(***************************************************************************)
(* Block synchronisation: the manager once the headers of the whole world  *)
(* have been received and the peers that sent them are gone.               *)
(***************************************************************************)
SyncAddrs == 1..SyncPeers

\* Every header of the world, parents first.
SyncHeaders ==
    [k \in 1..ChainLen |-> BlockHeader(MainHash(k))]
        \o [j \in 1..ForkLen |-> BlockHeader(ForkHash(j))]
        \o <<BlockHeader(HeavyHash)>>

\* The client asks for the successors of the header two below the main
\* chain's tip: the two headers above it.
SyncRequests == {{MainHash(ChainLen - 2)}}

\* The first of the two arrives, with a body that is valid or not.
SyncBlocks == {Block(MainHash(ChainLen - 1), TRUE), Block(MainHash(ChainLen - 1), FALSE)}

SyncConnections ==
    {c \in SeqUpTo(SyncAddrs, SyncPeers) : \A i, j \in 1..Len(c) : i # j => c[i] # c[j]}

InitSync ==
    /\ blockchain = add_headers(new_blockchain_state, SyncHeaders).state
    /\ peer_info = new_blockchain_manager.peer_info
    /\ get_data_request_info = new_blockchain_manager.get_data_request_info
    /\ inventory_to_be_synced = new_blockchain_manager.inventory_to_be_synced
    /\ outgoing_command_queue = new_blockchain_manager.outgoing_command_queue
    /\ clock = 0
    /\ last = NoCall

NextSync ==
    \/ \E addr \in SyncAddrs :
           Len(outgoing_command_queue) < MaxQueue /\ AddPeer(addr)
    \/ \E addr \in SyncAddrs : RemovePeer(addr)
    \/ \E addr \in SyncAddrs, block \in SyncBlocks : ReceivedBlockMessage(addr, block)
    \/ \E active_connections \in SyncConnections : Tick(active_connections)
    \/ \E block_hashes \in SyncRequests : HandleClientRequest(block_hashes)
    \/ \E secs \in ClockSteps : AdvanceClock(secs)

SpecSync == InitSync /\ [][NextSync]_vars

\* Block synchronisation with more blocks to fetch than one peer is asked
\* for: the client asks for the successors of genesis.
CapRequests == {{GenesisHash}}

CapBlocks == {Block(HeavyHash, TRUE)}

\* The connected peers are the first n addresses.
CapConnections == {[i \in 1..n |-> i] : n \in 0..SyncPeers}

\* Time passes by more than the timeout of a getdata request.
CapClockSteps == {GETDATA_REQUEST_TIMEOUT_SECS + 1}

NextCap ==
    \/ \E addr \in SyncAddrs, block \in CapBlocks : ReceivedBlockMessage(addr, block)
    \/ \E active_connections \in CapConnections : Tick(active_connections)
    \/ \E block_hashes \in CapRequests : HandleClientRequest(block_hashes)
    \/ \E secs \in CapClockSteps : AdvanceClock(secs)

SpecCap == InitSync /\ [][NextCap]_vars

\* Block synchronisation with peers that answer: tick is called again and
\* again, the first peer is in every list of connections while the second
\* comes and goes, every recorded request is answered by the peer it was
\* sent to with the valid block, and time does not pass beyond the timeout
\* of a recorded request. A peer that tick has removed may still send the
\* block it was asked for.
LiveConnections == {<<1>>, <<1, 2>>}

LiveTick == \E active_connections \in LiveConnections : Tick(active_connections)

LiveAnswer(inv) ==
    /\ inv \in DOMAIN get_data_request_info
    /\ ReceivedBlockMessage(get_data_request_info[inv].socket, Block(inv.hash, TRUE))

LiveItems == {InvBlock(MainHash(ChainLen - 1)), InvBlock(MainHash(ChainLen))}

LiveAnswerRemoved(addr, inv) ==
    /\ addr \notin DOMAIN peer_info
    /\ ReceivedBlockMessage(addr, Block(inv.hash, TRUE))

LiveClock(secs) ==
    /\ \A inv \in DOMAIN get_data_request_info :
           ~(get_data_request_info[inv].sent_at + GETDATA_REQUEST_TIMEOUT_SECS < clock + secs)
    /\ AdvanceClock(secs)

NextLive ==
    \/ LiveTick
    \/ \E inv \in LiveItems : LiveAnswer(inv)
    \/ \E addr \in SyncAddrs, inv \in LiveItems : LiveAnswerRemoved(addr, inv)
    \/ \E block_hashes \in SyncRequests : HandleClientRequest(block_hashes)
    \/ \E secs \in ClockSteps : LiveClock(secs)

LiveFairness ==
    /\ WF_vars(LiveTick)
    /\ \A inv \in LiveItems : WF_vars(LiveAnswer(inv))

SpecLive == InitSync /\ [][NextLive]_vars /\ LiveFairness

\* The same with peers that are removed only when no request sent to them
\* is recorded.
StableTick ==
    \E active_connections \in LiveConnections :
        /\ \A addr \in DOMAIN peer_info \ Range(active_connections) :
               \A inv \in DOMAIN get_data_request_info :
                   get_data_request_info[inv].socket # addr
        /\ Tick(active_connections)

NextStable ==
    \/ StableTick
    \/ \E inv \in LiveItems : LiveAnswer(inv)
    \/ \E block_hashes \in SyncRequests : HandleClientRequest(block_hashes)
    \/ \E secs \in ClockSteps : LiveClock(secs)

StableFairness ==
    /\ WF_vars(StableTick)
    /\ \A inv \in LiveItems : WF_vars(LiveAnswer(inv))

SpecStable == InitSync /\ [][NextStable]_vars /\ StableFairness

\* Client requests on the tree of SyncHeaders with blocks cached at several
\* depths: one peer connects and sends blocks, the client asks.
ClientBlocks ==
    {Block(h, TRUE) : h \in {MainHash(1), MainHash(2), MainHash(3), ForkHash(1), HeavyHash}}

\* The block hashes of the client's requests: genesis, whose descendants
\* reach beyond FUTURE_SUCCESSORS_DEPTH; a header and its child; the fork
\* point; the fork point and a child; a tip; a hash that is not cached.
ClientHashes ==
    {{GenesisHash}, {GenesisHash, MainHash(1)}, {MainHash(1)}, {MainHash(ForkAt)},
     {MainHash(ForkAt), MainHash(ForkAt + 1)}, {MainHash(ChainLen)}, {OrphanHash}}

NextClient ==
    \/ \E addr \in Addrs :
           Len(outgoing_command_queue) < MaxQueue /\ AddPeer(addr)
    \/ \E addr \in Addrs, block \in ClientBlocks : ReceivedBlockMessage(addr, block)
    \/ \E block_hashes \in ClientHashes : HandleClientRequest(block_hashes)

SpecClient == InitSync /\ [][NextClient]_vars

\* locator_hashes on a main chain with a fork: the fork's one header has
\* more work than the main chain, which goes on growing beside it.
LocatorForkHash == LocatorLong + LocatorSpan + 1

LocatorForkHeader ==
    [hash |-> LocatorForkHash, prev_blockhash |-> LocatorForkAt, work |-> LocatorForkWork]

AddFork == AddHeader(LocatorForkHeader)

ExtendMainChain ==
    LET k == Cardinality(DOMAIN blockchain.header_cache \ {LocatorForkHash})
    IN  /\ \/ k <= LocatorSmall
           \/ k > LocatorMid /\ k <= LocatorMid + LocatorSpan
           \/ k > LocatorLong /\ k <= LocatorLong + LocatorSpan
        /\ AddHeader(ChainHeader(k))

NextLocatorFork == ExtendMainChain \/ AddFork \/ LocatorHashes

SpecLocatorFork == InitLocator /\ [][NextLocatorFork]_vars

(***************************************************************************)
(* Properties                                                              *)
(***************************************************************************)
header_cache == blockchain.header_cache
block_cache == blockchain.block_cache
children == blockchain.children
tips == blockchain.tips

\* The hashes in the children list of p that equal h, by position.
ChildSlots(ch, h) == {<<p, i>> \in (DOMAIN ch) \X (1..Cardinality(Hashes)) :
                          i <= Len(ch[p]) /\ ch[p][i] = h}

\* C1: every cached header other than genesis has its parent cached, is one
\* higher than its parent and carries its parent's work plus its own;
\* genesis is cached at height 0 with its own work. Every header is cached
\* under its own hash.
C1_HeightWork ==
    /\ GenesisHash \in DOMAIN header_cache
    /\ header_cache[GenesisHash].height = 0
    /\ header_cache[GenesisHash].work = header_cache[GenesisHash].header.work
    /\ \A h \in DOMAIN header_cache :
           /\ header_cache[h].header.hash = h
           /\ h # GenesisHash =>
                LET p == header_cache[h].header.prev_blockhash
                IN  /\ p \in DOMAIN header_cache
                    /\ header_cache[h].height = header_cache[p].height + 1
                    /\ header_cache[h].work = header_cache[p].work + header_cache[h].header.work

\* The whole main chain and the whole fork are cached.
C1_Witness ==
    /\ MainHash(ChainLen) \in DOMAIN header_cache
    /\ ForkHash(ForkLen) \in DOMAIN header_cache
    /\ header_cache[ForkHash(ForkLen)].height = ForkAt + ForkLen

RECURSIVE ReachesGenesis(_, _, _)
ReachesGenesis(hc, h, fuel) ==
    IF h = GenesisHash THEN TRUE
    ELSE IF fuel = 0 \/ h \notin DOMAIN hc THEN FALSE
    ELSE ReachesGenesis(hc, hc[h].header.prev_blockhash, fuel - 1)

\* C2: the header tree is a tree rooted at genesis. Every hash in a children
\* list is a cached header; every cached header but genesis is exactly once
\* in the children list of its parent and in no other list; genesis is in
\* none; the parent links of every cached header lead to genesis.
C2_Tree ==
    /\ \A p \in DOMAIN children : \A i \in 1..Len(children[p]) :
           children[p][i] \in DOMAIN header_cache
    /\ ChildSlots(children, GenesisHash) = {}
    /\ \A h \in DOMAIN header_cache \ {GenesisHash} :
           /\ Cardinality(ChildSlots(children, h)) = 1
           /\ \A slot \in ChildSlots(children, h) :
                  slot[1] = header_cache[h].header.prev_blockhash
    /\ \A h \in DOMAIN header_cache :
           ReachesGenesis(header_cache, h, Cardinality(DOMAIN header_cache))

\* add_block has just added a header, genesis has two children and one of
\* them has a child.
C2_Witness ==
    /\ last.op = "add_block" /\ last.store_changed
    /\ GenesisHash \in DOMAIN children /\ Len(children[GenesisHash]) = 2
    /\ MainHash(2) \in DOMAIN header_cache

\* The cached headers without a cached child.
Leaves(hc) == {h \in DOMAIN hc : \A c \in DOMAIN hc : hc[c].header.prev_blockhash # h}

C3_TipsAreLeaves ==
    /\ {tips[i].header.hash : i \in 1..Len(tips)} = Leaves(header_cache)
    /\ Len(tips) = Cardinality(Leaves(header_cache))
    /\ \A i \in 1..Len(tips) : tips[i] = header_cache[tips[i].header.hash]
    /\ last.op = "new" => tips = <<cached_genesis>>

C3_TipStep ==
    (last'.op = "add_header" /\ last'.tag = "HeaderAdded") =>
        LET header == last'.headers[1]
            cached == blockchain'.header_cache[header.hash]
            at == {i \in 1..Len(tips) : tips[i].header.hash = header.prev_blockhash}
        IN  IF at # {}
            THEN /\ Len(tips') = Len(tips)
                 /\ \A i \in 1..Len(tips) :
                        tips'[i] = IF i \in at THEN cached ELSE tips[i]
            ELSE tips' = tips \o <<cached>>

\* C3: the tips are exactly the cached headers without a cached child, each
\* once, only genesis at first; a header added under a tip takes that tip's
\* place in the list, a header added under any other header is appended.
C3_Tips == []C3_TipsAreLeaves /\ [][C3_TipStep]_vars

\* Three tips: genesis and the fork point each have two children.
C3_Witness ==
    /\ Len(tips) = 3
    /\ GenesisHash \in DOMAIN children /\ Len(children[GenesisHash]) = 2
    /\ MainHash(ForkAt) \in DOMAIN children /\ Len(children[MainHash(ForkAt)]) = 2
    /\ last.tag = "HeaderAdded"

MainHashes == {MainHash(k) : k \in 1..ChainLen}
ForkHashes == {ForkHash(j) : j \in 1..ForkLen}

\* C4: the active tip is one of the tips and no tip has more work, whatever
\* the heights. With the main chain alone cached it is the chain's last
\* header; with the main chain and the (longer) fork it is the fork's last
\* header, at height ForkAt + ForkLen.
C4_ActiveTip ==
    LET active == get_active_chain_tip(blockchain)
    IN  /\ \E i \in 1..Len(tips) : tips[i] = active
        /\ \A i \in 1..Len(tips) : tips[i].work <= active.work
        /\ DOMAIN header_cache = {GenesisHash} \cup MainHashes =>
               /\ active.header.hash = MainHash(ChainLen)
               /\ active.height = ChainLen
        /\ DOMAIN header_cache = {GenesisHash} \cup MainHashes \cup ForkHashes =>
               /\ active.header.hash = ForkHash(ForkLen)
               /\ active.height = ForkAt + ForkLen

\* The active tip is lower than another tip.
C4_Witness ==
    \E i \in 1..Len(tips) : get_active_chain_tip(blockchain).height < tips[i].height

\* The main chain and then the fork were added: the example of C4.
C4_Example ==
    /\ DOMAIN header_cache = {GenesisHash} \cup MainHashes \cup ForkHashes
    /\ tips[1].header.hash = MainHash(ChainLen)
    /\ get_active_chain_tip(blockchain).header.hash = ForkHash(ForkLen)

\* C5: add_header of the header that the call before it added returns
\* HeaderAlreadyExists with the same cached header and leaves the store as it
\* is; add_headers of headers that are all cached returns no header and no
\* error and leaves the store as it is.
C5_Idempotent ==
    [][ /\ (last'.op = "add_header" /\ last'.repeats = "HeaderAdded") =>
              /\ last'.ok /\ last'.tag = "HeaderAlreadyExists"
              /\ last'.cached = last.cached
              /\ blockchain' = blockchain
        /\ (/\ last'.op = "add_headers"
            /\ \A i \in 1..Len(last'.headers) :
                   last'.headers[i].hash \in DOMAIN header_cache) =>
              /\ last'.added = <<>> /\ last'.err = None
              /\ blockchain' = blockchain
      ]_vars

\* add_header has returned HeaderAlreadyExists for the header the call before
\* it added.
C5_Witness ==
    /\ last.op = "add_header" /\ last.repeats = "HeaderAdded"
    /\ last.tag = "HeaderAlreadyExists"
    /\ last.headers[1].hash # GenesisHash

\* C6: an add_header that fails, with InvalidHeader or PrevHeaderNotCached,
\* leaves header cache, children, tips and block cache as they were.
C6_FailedAddHeader ==
    [][ (last'.op = "add_header" /\ ~last'.ok) =>
            /\ last'.tag \in {"InvalidHeader", "PrevHeaderNotCached"}
            /\ blockchain' = blockchain
      ]_vars

\* add_header has failed with PrevHeaderNotCached on a store that holds
\* headers and a block.
C6_Witness ==
    /\ last.op = "add_header" /\ ~last.ok /\ last.tag = "PrevHeaderNotCached"
    /\ Cardinality(DOMAIN header_cache) > 2
    /\ DOMAIN block_cache # {}

\* For a list hs handed to add_headers on store bc: the hashes cached when
\* position i is reached if nothing failed before it, whether position i then
\* fails, the first failing position (Len(hs) + 1 if none), and the
\* positions whose header is new when it is reached.
C7_Known(bc, hs, i) == DOMAIN bc.header_cache \cup {hs[j].hash : j \in 1..(i - 1)}
C7_Fails(bc, hs, i) ==
    /\ hs[i].hash \notin C7_Known(bc, hs, i)
    /\ hs[i].prev_blockhash \notin C7_Known(bc, hs, i)
C7_FirstFailure(bc, hs) ==
    LET failing == {i \in 1..Len(hs) : C7_Fails(bc, hs, i)} \cup {Len(hs) + 1}
    IN  CHOOSE i \in failing : \A j \in failing : i <= j
C7_Accepted(bc, hs) ==
    {i \in 1..(C7_FirstFailure(bc, hs) - 1) : hs[i].hash \notin C7_Known(bc, hs, i)}

\* C7: add_headers goes through the list in order and stops at the first
\* header whose add_header fails. It returns the headers added before that
\* position, in order, and PrevHeaderNotCached with that header's hash; no
\* header at or after that position is added, so a child before its parent
\* fails and is not reordered. Without a failure it returns no error.
C7_AddHeaders ==
    [][ last'.op = "add_headers" =>
            LET hs == last'.headers
                f == C7_FirstFailure(blockchain, hs)
                accepted == C7_Accepted(blockchain, hs)
                nth(k) == CHOOSE i \in accepted :
                              Cardinality({j \in accepted : j < i}) = k - 1
            IN  /\ Len(last'.added) = Cardinality(accepted)
                /\ \A k \in 1..Len(last'.added) :
                       /\ last'.added[k].header = hs[nth(k)]
                       /\ last'.added[k] = blockchain'.header_cache[hs[nth(k)].hash]
                /\ DOMAIN blockchain'.header_cache =
                       DOMAIN header_cache \cup {hs[i].hash : i \in 1..(f - 1)}
                /\ last'.err = IF f <= Len(hs)
                               THEN Some([tag |-> "PrevHeaderNotCached", hash |-> hs[f].hash])
                               ELSE None
                /\ last'.ok = (f > Len(hs))
      ]_vars

\* add_headers has added the first header of its list and failed on the
\* second.
C7_Witness ==
    /\ last.op = "add_headers" /\ last.err # None
    /\ Len(last.headers) = 2 /\ Len(last.added) = 1
    /\ last.err[1].hash = last.headers[2].hash

C8_BodiesHaveHeaders ==
    \A h \in DOMAIN block_cache :
        /\ h \in DOMAIN header_cache
        /\ block_cache[h].header = header_cache[h].header
        /\ block_cache[h].merkle_ok

C8_AddBlockStep ==
    last'.op = "add_block" =>
        LET block == last'.blocks[1]
            hash == block.header.hash
            header_step == add_header(blockchain, block.header)
        IN  /\ last'.ok = (header_step.ok /\ block.merkle_ok)
            /\ last'.ok =>
                   /\ blockchain'.block_cache = (hash :> block) @@ block_cache
                   /\ last'.height = blockchain'.header_cache[hash].height
            /\ ~last'.ok => blockchain'.block_cache = block_cache
            /\ ~header_step.ok =>
                   /\ last'.tag = "Header"
                   /\ last'.err = Some([tag |-> header_step.tag, hash |-> hash])
                   /\ header_step.tag \in {"InvalidHeader", "PrevHeaderNotCached"}
                   /\ blockchain' = blockchain

\* C8: add_block caches the body exactly when add_header of its header
\* succeeds and the block is valid, and then returns the header's height; when
\* add_header fails its error is returned and the store is left as it was.
\* Every cached body is the body of a cached header.
C8_AddBlock == []C8_BodiesHaveHeaders /\ [][C8_AddBlockStep]_vars

\* add_block has added a header above height 1 and cached its body.
C8_Witness ==
    /\ last.op = "add_block" /\ last.ok /\ last.store_changed
    /\ last.height = 2
    /\ last.blocks[1].header.hash \in DOMAIN block_cache
    /\ Cardinality(DOMAIN block_cache) > 1

\* C9: prune_old_blocks removes the cached bodies of the given hashes and
\* nothing else: the other bodies, the header cache, the children, the tips
\* and the active tip stay, and every known hash stays known.
C9_Prune ==
    [][ last'.op = "prune_old_blocks" =>
            /\ DOMAIN blockchain'.block_cache = DOMAIN block_cache \ last'.hashes
            /\ \A h \in DOMAIN blockchain'.block_cache :
                   blockchain'.block_cache[h] = block_cache[h]
            /\ blockchain'.header_cache = header_cache
            /\ blockchain'.children = children
            /\ blockchain'.tips = tips
            /\ get_active_chain_tip(blockchain') = get_active_chain_tip(blockchain)
            /\ \A h \in last'.hashes :
                   is_block_hash_known(blockchain, h) => is_block_hash_known(blockchain', h)
      ]_vars

\* prune_old_blocks has removed the body of a header and left another body.
C9_Witness ==
    /\ last.op = "prune_old_blocks" /\ last.store_changed
    /\ \E h \in last.hashes : h \in DOMAIN header_cache /\ h # GenesisHash
    /\ DOMAIN block_cache # {}

\* C10: a cached header stays cached, with the same header, height and work,
\* over every step of the manager: messages, add_peer, remove_peer, tick and
\* client requests, and the store operations they call.
C10_HeadersPermanent ==
    [][ \A h \in DOMAIN header_cache :
            /\ h \in DOMAIN blockchain'.header_cache
            /\ blockchain'.header_cache[h] = header_cache[h]
      ]_vars

\* A client request has pruned a body of a store that holds a chain of two
\* headers on genesis.
C10_Witness ==
    /\ last.op = "handle_client_request" /\ last.store_changed
    /\ MainHash(2) \in DOMAIN header_cache
    /\ header_cache[MainHash(2)].height = 2

\* The positions of h in the list hs.
Positions(hs, h) == {i \in 1..Len(hs) : hs[i] = h}

\* C11: locator_hashes returns a list that is not empty, has at most 23
\* hashes and ends with the genesis hash; genesis is in it once, so it was
\* not appended after being emitted last. Every hash in it is cached.
C11_Locator ==
    LET hashes == locator_hashes(blockchain)
    IN  /\ Len(hashes) >= 1
        /\ Len(hashes) <= LOCATOR_ROUNDS + 1
        /\ hashes[Len(hashes)] = GenesisHash
        /\ Positions(hashes, GenesisHash) = {Len(hashes)}
        /\ \A i \in 1..Len(hashes) : hashes[i] \in DOMAIN header_cache
        /\ hashes[1] = get_active_chain_tip(blockchain).header.hash
        /\ last.op = "locator_hashes" => last.locators = hashes

\* locator_hashes has run all its rounds on a chain long enough for the last
\* walk and has returned 23 hashes.
C11_Witness ==
    /\ last.op = "locator_hashes"
    /\ Len(last.locators) = LOCATOR_ROUNDS + 1
    /\ get_active_chain_tip(blockchain).height > LocatorLong + 4

\* locator_hashes has emitted genesis in its last round and returned 22
\* hashes.
C11_WitnessGenesisLast ==
    /\ last.op = "locator_hashes"
    /\ Len(last.locators) = LOCATOR_ROUNDS
    /\ get_active_chain_tip(blockchain).height = LocatorMid + 4
    /\ last.locators[LOCATOR_ROUNDS - 1] # GenesisHash

\* C12: add_peer of a tracked address changes nothing. add_peer of an
\* untracked address adds a peer at height 0 with tip genesis and no
\* outstanding getdata request, queues one GetHeaders command for it with
\* locators [genesis] and the null stop hash, and records that request on
\* the peer with the Disconnect policy; nothing else changes.
C12_AddPeer ==
    [][ last'.op = "add_peer" =>
          LET addr == last'.addr
              locators == << <<GenesisHash>>, NullHash >>
          IN  /\ blockchain' = blockchain
              /\ get_data_request_info' = get_data_request_info
              /\ inventory_to_be_synced' = inventory_to_be_synced
              /\ IF addr \in DOMAIN peer_info
                 THEN /\ peer_info' = peer_info
                      /\ outgoing_command_queue' = outgoing_command_queue
                 ELSE /\ DOMAIN peer_info' = DOMAIN peer_info \cup {addr}
                      /\ \A a \in DOMAIN peer_info : peer_info'[a] = peer_info[a]
                      /\ peer_info'[addr] =
                             [socket |-> addr, height |-> 0, tip |-> GenesisHash,
                              last_asked |-> Some(locators), sent_at |-> Some(clock),
                              on_timeout |-> "Disconnect",
                              num_of_outstanding_get_data_requests |-> 0]
                      /\ outgoing_command_queue' =
                             Append(outgoing_command_queue,
                                    [address |-> Some(addr), message |-> "GetHeaders",
                                     locator_hashes |-> <<GenesisHash>>,
                                     stop_hash |-> NullHash, inventory |-> {}])
      ]_vars

\* add_peer has added a second peer while the first has getdata requests
\* outstanding.
C12_Witness ==
    /\ last.op = "add_peer"
    /\ Len(outgoing_command_queue) = 1
    /\ outgoing_command_queue[1].address = Some(last.addr)
    /\ Cardinality(DOMAIN peer_info) = 2
    /\ DOMAIN get_data_request_info # {}

\* add_peer has been called for a tracked peer that has getdata requests
\* outstanding.
C12_WitnessTracked ==
    /\ last.op = "add_peer"
    /\ outgoing_command_queue = <<>>
    /\ last.addr \in DOMAIN peer_info
    /\ peer_info[last.addr].num_of_outstanding_get_data_requests > 0

\* The getdata requests of info that were sent to addr.
RequestsTo(info, addr) == {inv \in DOMAIN info : info[inv].socket = addr}

\* C13: after remove_peer(addr) the address is not tracked and no getdata
\* request sent to addr is recorded; the requests sent to other peers, the
\* other peers' states and the store are as before.
C13_RemovePeer ==
    [][ last'.op = "remove_peer" =>
          LET addr == last'.addr
          IN  /\ DOMAIN peer_info' = DOMAIN peer_info \ {addr}
              /\ \A a \in DOMAIN peer_info' : peer_info'[a] = peer_info[a]
              /\ RequestsTo(get_data_request_info', addr) = {}
              /\ DOMAIN get_data_request_info' =
                     DOMAIN get_data_request_info \ RequestsTo(get_data_request_info, addr)
              /\ \A inv \in DOMAIN get_data_request_info' :
                     get_data_request_info'[inv] = get_data_request_info[inv]
              /\ blockchain' = blockchain
      ]_vars

\* remove_peer has dropped the getdata requests of the peer it removed, and
\* another peer is still tracked.
C13_Witness ==
    /\ last.op = "remove_peer" /\ last.requests_changed
    /\ DOMAIN peer_info # {}

\* remove_peer has removed a peer and the getdata requests sent to another
\* peer are still recorded.
C13_WitnessOthers ==
    /\ last.op = "remove_peer" /\ ~last.requests_changed
    /\ DOMAIN get_data_request_info # {}
    /\ DOMAIN peer_info # {}

HeaderLimitErrors == {"ReceivedTooManyUnsolicitedHeaders", "ReceivedTooManyHeaders"}

\* C14: a headers message from a tracked peer without an outstanding
\* getheaders request is rejected with ReceivedTooManyUnsolicitedHeaders when
\* it has more than 20 headers and processed when it has 20 or fewer; from a
\* peer with an outstanding request it is processed up to 2000 headers and
\* rejected with ReceivedTooManyHeaders above. A rejected message changes
\* nothing; a processed one hands its headers to add_headers.
C14_HeaderLimits ==
    [][ (last'.op = "received_headers_message" /\ last'.addr \in DOMAIN peer_info) =>
          LET len == last'.pad + Len(last'.headers)
              solicited == peer_info[last'.addr].last_asked # None
              rejected == ~last'.ok /\ last'.tag \in HeaderLimitErrors
              processed ==
                  /\ last'.ok
                  /\ blockchain' = add_headers(blockchain, last'.headers).state
          IN  /\ (~solicited /\ len > MAX_UNSOLICITED_HEADERS) =>
                     rejected /\ last'.tag = "ReceivedTooManyUnsolicitedHeaders"
              /\ (~solicited /\ len <= MAX_UNSOLICITED_HEADERS) => processed
              /\ (solicited /\ len <= MAX_HEADERS_SIZE) => processed
              /\ (solicited /\ len > MAX_HEADERS_SIZE) =>
                     rejected /\ last'.tag = "ReceivedTooManyHeaders"
              /\ rejected =>
                     /\ blockchain' = blockchain
                     /\ peer_info' = peer_info
                     /\ outgoing_command_queue' = outgoing_command_queue
      ]_vars

\* 21 headers, one of them new, have been rejected as unsolicited.
C14_Witness ==
    /\ last.op = "received_headers_message"
    /\ last.tag = "ReceivedTooManyUnsolicitedHeaders"
    /\ last.pad + Len(last.headers) = MAX_UNSOLICITED_HEADERS + 1
    /\ last.headers[Len(last.headers)].hash \notin DOMAIN header_cache

\* 20 headers have been processed twice in a row: the second time the peer
\* had no outstanding request.
C14_WitnessUnsolicited ==
    /\ last.op = "received_headers_message" /\ last.ok /\ last.repeats = "Ok"
    /\ last.pad + Len(last.headers) = MAX_UNSOLICITED_HEADERS

\* 2000 headers have been processed and one of them was new.
C14_WitnessSolicited ==
    /\ last.op = "received_headers_message" /\ last.ok /\ last.store_changed
    /\ last.pad + Len(last.headers) = MAX_HEADERS_SIZE

\* 2001 headers have been rejected.
C14_WitnessTooMany ==
    /\ last.op = "received_headers_message"
    /\ last.tag = "ReceivedTooManyHeaders"
    /\ last.pad + Len(last.headers) = MAX_HEADERS_SIZE + 1

\* What C15 says of a step: the peer's request marker is cleared and no
\* command is queued.
C15_Cleared ==
    /\ peer_info'[last'.addr].last_asked = None
    /\ outgoing_command_queue' = outgoing_command_queue

\* A headers message of fewer than 2000 headers is processed and add_headers
\* reports no error for it.
C15_ShortBatch ==
    /\ last'.op = "received_headers_message" /\ last'.ok
    /\ last'.pad + Len(last'.headers) < MAX_HEADERS_SIZE
    /\ add_headers(blockchain, last'.headers).err = None

\* C15: whenever received_headers_message succeeds for a message of fewer
\* than 2000 headers (of any length below the limit) without a
\* PrevHeaderNotCached among them, the peer has no outstanding getheaders
\* request afterwards and the call has queued no command.
C15_CaughtUp == [][C15_ShortBatch => C15_Cleared]_vars

\* The same for messages that hold at least one header: the code's
\* behaviour outside the empty message.
C15_CaughtUpNonEmpty ==
    [][(C15_ShortBatch /\ last'.pad + Len(last'.headers) > 0) => C15_Cleared]_vars

\* An empty headers message has been accepted and the peer still has its
\* getheaders request outstanding.
C15_WitnessEmpty ==
    /\ last.op = "received_headers_message" /\ last.ok
    /\ last.pad + Len(last.headers) = 0
    /\ peer_info[last.addr].last_asked # None

\* A message of 1999 headers has been accepted.
C15_WitnessNonEmpty ==
    /\ last.op = "received_headers_message" /\ last.ok
    /\ last.pad + Len(last.headers) = MAX_HEADERS_SIZE - 1
    /\ peer_info[last.addr].last_asked = None

\* The outstanding counts of the tracked peers.
Outstanding(info) == [a \in DOMAIN info |-> info[a].num_of_outstanding_get_data_requests]

\* C16: when received_block_message fails, with UnknownPeer or
\* BlockNotAdded, the recorded getdata requests, every peer's outstanding
\* count, the inventory to be synced and the command queue are as before
\* and no body is added to the block cache.
C16_FailedBlock ==
    [][ (last'.op = "received_block_message" /\ ~last'.ok) =>
          /\ last'.tag \in {"UnknownPeer", "BlockNotAdded"}
          /\ last'.tag = "UnknownPeer" <=> last'.addr \notin DOMAIN peer_info
          /\ get_data_request_info' = get_data_request_info
          /\ Outstanding(peer_info') = Outstanding(peer_info)
          /\ inventory_to_be_synced' = inventory_to_be_synced
          /\ outgoing_command_queue' = outgoing_command_queue
          /\ blockchain'.block_cache = block_cache
      ]_vars

\* A block whose body is not valid has come from the peer it was requested
\* from and was not added.
C16_Witness ==
    /\ last.op = "received_block_message" /\ last.tag = "BlockNotAdded"
    /\ InvBlock(last.blocks[1].header.hash) \in DOMAIN get_data_request_info
    /\ get_data_request_info[InvBlock(last.blocks[1].header.hash)].socket = last.addr

\* A block has come from an address that is not tracked while its request
\* is outstanding.
C16_WitnessUnknownPeer ==
    /\ last.op = "received_block_message" /\ last.tag = "UnknownPeer"
    /\ InvBlock(last.blocks[1].header.hash) \in DOMAIN get_data_request_info

\* C17: when received_block_message(addr, block) succeeds the body is in
\* the block cache and no getdata request for the block is recorded; the
\* other requests stay. The outstanding count of addr is one lower if the
\* request had been sent to addr and is unchanged otherwise (also when
\* there was no request); no other peer's state changes.
C17_BlockReceived ==
    [][ (last'.op = "received_block_message" /\ last'.ok) =>
          LET addr == last'.addr
              block == last'.blocks[1]
              inv == InvBlock(block.header.hash)
              sent_to_addr ==
                  /\ inv \in DOMAIN get_data_request_info
                  /\ get_data_request_info[inv].socket = addr
          IN  /\ block.header.hash \in DOMAIN blockchain'.block_cache
              /\ blockchain'.block_cache[block.header.hash] = block
              /\ DOMAIN get_data_request_info' = DOMAIN get_data_request_info \ {inv}
              /\ \A i \in DOMAIN get_data_request_info' :
                     get_data_request_info'[i] = get_data_request_info[i]
              /\ DOMAIN peer_info' = DOMAIN peer_info
              /\ peer_info'[addr].num_of_outstanding_get_data_requests =
                     peer_info[addr].num_of_outstanding_get_data_requests
                         - (IF sent_to_addr THEN 1 ELSE 0)
              /\ \A a \in DOMAIN peer_info \ {addr} : peer_info'[a] = peer_info[a]
      ]_vars

\* Two blocks were requested from one peer; the first has come from it, the
\* peer has one request outstanding and that request is recorded.
C17_Witness ==
    /\ last.op = "received_block_message" /\ last.ok /\ last.requests_changed
    /\ peer_info[last.addr].num_of_outstanding_get_data_requests = 1
    /\ Cardinality(RequestsTo(get_data_request_info, last.addr)) = 1

\* The block has come from a peer other than the one it was requested from:
\* the request is gone and the other peer still counts it.
C17_WitnessOtherPeer ==
    /\ last.op = "received_block_message" /\ last.ok /\ last.requests_changed
    /\ \E a \in DOMAIN peer_info \ {last.addr} :
           /\ peer_info[a].num_of_outstanding_get_data_requests = 2
           /\ Cardinality(RequestsTo(get_data_request_info, a)) = 1

\* A block that was not requested has been added.
C17_WitnessNoRequest ==
    /\ last.op = "received_block_message" /\ last.ok /\ ~last.requests_changed
    /\ DOMAIN get_data_request_info # {}

\* The getdata requests older than the timeout at time `now`.
Expired(info, now) ==
    {inv \in DOMAIN info : info[inv].sent_at + GETDATA_REQUEST_TIMEOUT_SECS < now}

\* The items tick has asked addr for.
SentTo(sent, addr) ==
    UNION {sent[i].inventory : i \in {j \in 1..Len(sent) :
               sent[j].message = "GetData" /\ sent[j].address = Some(addr)}}

\* The step is a call of tick (time passes between the calls only).
TickStep == last'.op = "tick" /\ clock' = clock

\* What C18 asks of a tick step: no request that was older than the timeout
\* is recorded as it was, and every peer that stays tracked has its
\* outstanding count reduced by one for each of its expired requests (and
\* raised by what the tick has asked it for).
C18_Expiry ==
    /\ \A inv \in Expired(get_data_request_info, clock) :
           \/ inv \notin DOMAIN get_data_request_info'
           \/ get_data_request_info'[inv].sent_at = clock
    /\ \A a \in DOMAIN peer_info \cap DOMAIN peer_info' :
           peer_info'[a].num_of_outstanding_get_data_requests =
               peer_info[a].num_of_outstanding_get_data_requests
                   - Cardinality(RequestsTo(get_data_request_info, a)
                                     \cap Expired(get_data_request_info, clock))
                   + Cardinality(SentTo(last'.sent, a))

\* C18: a getdata request older than the 30 second timeout when tick runs
\* is removed by that tick and the outstanding count of the peer it was sent
\* to is reduced by one, whatever the inventory to be synced holds, the
\* empty set included.
C18_ExpiredRemoved == [][TickStep => C18_Expiry]_vars

\* The same for the ticks that start with some inventory to be synced.
C18_ExpiredRemovedNonEmpty ==
    [][(TickStep /\ inventory_to_be_synced # {}) => C18_Expiry]_vars

\* A tick has run with nothing to be synced while a request was older than
\* the timeout: the request is still recorded and still counted.
C18_WitnessEmpty ==
    /\ last.op = "tick" /\ ~last.requests_changed /\ last.sent = <<>>
    /\ inventory_to_be_synced = {}
    /\ \E inv \in Expired(get_data_request_info, clock) :
           LET a == get_data_request_info[inv].socket
           IN  /\ a \in DOMAIN peer_info
               /\ peer_info[a].num_of_outstanding_get_data_requests > 0

\* A tick that started with something to be synced has removed the requests
\* older than the timeout.
C18_WitnessNonEmpty ==
    /\ last.op = "tick" /\ last.requests_changed
    /\ clock > GETDATA_REQUEST_TIMEOUT_SECS
    /\ Cardinality(DOMAIN get_data_request_info) = 1
    /\ \A inv \in DOMAIN get_data_request_info :
           get_data_request_info[inv].sent_at = clock
    /\ \E a \in DOMAIN peer_info :
           peer_info[a].num_of_outstanding_get_data_requests = 1

\* C19: when a getdata request expires in a tick, its item is in the
\* inventory to be synced after the tick or has been asked for again by the
\* tick, so that a later tick asks for it without a new client request.
C19_ExpiredRequeued ==
    [][ TickStep =>
          \A inv \in Expired(get_data_request_info, clock) :
              ( /\ get_data_request_info[inv].socket \in Range(last'.conns)
                /\ inv \notin DOMAIN get_data_request_info' )
              => inv \in inventory_to_be_synced'
      ]_vars

\* C20: every tracked peer's outstanding count is at most 8 and at most 8
\* getdata requests sent to one peer are recorded.
C20_Cap ==
    \A a \in DOMAIN peer_info :
        /\ peer_info[a].num_of_outstanding_get_data_requests <= INV_PER_GET_DATA_REQUEST
        /\ Cardinality(RequestsTo(get_data_request_info, a)) <= INV_PER_GET_DATA_REQUEST

\* The outstanding count of addr when a tick that sends getdata commands
\* selects its inventory: the peer's count less its expired requests, or
\* zero for a peer the tick has just added.
OutstandingAtDispatch(a) ==
    IF a \in DOMAIN peer_info
    THEN peer_info[a].num_of_outstanding_get_data_requests
             - Cardinality(RequestsTo(get_data_request_info, a)
                               \cap Expired(get_data_request_info, clock))
    ELSE 0

\* C20: a tick sends a peer at most one GetData command, and the command
\* carries at most 8 less the peer's outstanding count items.
C20_CommandSize ==
    [][ TickStep =>
          /\ \A i, j \in 1..Len(last'.sent) :
                 ( /\ last'.sent[i].message = "GetData"
                   /\ last'.sent[j].message = "GetData"
                   /\ last'.sent[i].address = last'.sent[j].address ) => i = j
          /\ \A i \in 1..Len(last'.sent) :
                 last'.sent[i].message = "GetData" =>
                     /\ last'.sent[i].inventory # {}
                     /\ Cardinality(last'.sent[i].inventory) <=
                            INV_PER_GET_DATA_REQUEST
                                - OutstandingAtDispatch(last'.sent[i].address[1])
      ]_vars

\* A tick has sent a peer that had 7 requests outstanding one more item, and
\* the peer is at the cap.
C20_Witness ==
    /\ last.op = "tick"
    /\ \E i \in 1..Len(last.sent) :
           /\ last.sent[i].message = "GetData"
           /\ Cardinality(last.sent[i].inventory) = 1
           /\ peer_info[last.sent[i].address[1]].num_of_outstanding_get_data_requests
                  = INV_PER_GET_DATA_REQUEST

\* A tick has sent a peer 8 items and more are left to be synced.
C20_WitnessFull ==
    /\ last.op = "tick"
    /\ inventory_to_be_synced # {}
    /\ \E i \in 1..Len(last.sent) :
           /\ last.sent[i].message = "GetData"
           /\ Cardinality(last.sent[i].inventory) = INV_PER_GET_DATA_REQUEST
           /\ Cardinality(RequestsTo(get_data_request_info, last.sent[i].address[1]))
                  = INV_PER_GET_DATA_REQUEST

\* C20: in every state every tracked peer's outstanding count and the
\* number of recorded requests sent to it are at most 8, and no GetData
\* command carries more than 8 less the peer's outstanding count items.
C20_PerPeerCap == []C20_Cap /\ C20_CommandSize

\* The inventory a tick may ask for: what is to be synced and has no
\* request younger than the timeout at a peer that stays connected.
Candidates ==
    inventory_to_be_synced
        \ {inv \in DOMAIN get_data_request_info :
               /\ inv \notin Expired(get_data_request_info, clock)
               /\ get_data_request_info[inv].socket \in Range(last'.conns)}

\* The items a tick has asked some peer for.
Dispatched(sent) == UNION {SentTo(sent, a) : a \in SyncAddrs}

\* C21: after a tick that started with a non-empty inventory to be synced
\* every candidate has a request recorded or every tracked peer has 8
\* requests outstanding; what is left to be synced is the candidates less
\* the items asked for, and each peer's count has grown from its count at
\* dispatch by the number of items it was asked for.
C21_WorkConserving ==
    [][ (TickStep /\ inventory_to_be_synced # {}) =>
          /\ \/ Candidates \subseteq DOMAIN get_data_request_info'
             \/ \A a \in DOMAIN peer_info' :
                    peer_info'[a].num_of_outstanding_get_data_requests
                        = INV_PER_GET_DATA_REQUEST
          /\ Dispatched(last'.sent) \subseteq Candidates
          /\ inventory_to_be_synced' = Candidates \ Dispatched(last'.sent)
          /\ \A a \in DOMAIN peer_info' :
                 /\ peer_info'[a].num_of_outstanding_get_data_requests =
                        OutstandingAtDispatch(a) + Cardinality(SentTo(last'.sent, a))
                 /\ \A inv \in SentTo(last'.sent, a) :
                        /\ inv \in DOMAIN get_data_request_info'
                        /\ get_data_request_info'[inv].socket = a
                        /\ get_data_request_info'[inv].sent_at = clock
      ]_vars

\* C21: with n <= 8 items to be synced, none of them requested, and one
\* tracked peer with nothing outstanding, a tick asks that peer for all n
\* items and its count becomes n.
C21_OnePeer ==
    [][ ( /\ TickStep
          /\ inventory_to_be_synced # {}
          /\ Cardinality(inventory_to_be_synced) <= INV_PER_GET_DATA_REQUEST
          /\ inventory_to_be_synced \cap DOMAIN get_data_request_info = {}
          /\ Cardinality(DOMAIN peer_info') = 1 ) =>
          \A a \in DOMAIN peer_info' :
              OutstandingAtDispatch(a) = 0 =>
                  /\ SentTo(last'.sent, a) = inventory_to_be_synced
                  /\ peer_info'[a].num_of_outstanding_get_data_requests
                         = Cardinality(inventory_to_be_synced)
                  /\ inventory_to_be_synced' = {}
      ]_vars

\* C21: the scheduling pass of tick is work-conserving.
C21_Scheduling == C21_WorkConserving /\ C21_OnePeer

\* A tick has left something to be synced with every peer at the cap.
C21_Witness ==
    /\ last.op = "tick" /\ last.sent # <<>>
    /\ inventory_to_be_synced # {}
    /\ DOMAIN peer_info # {}
    /\ \A a \in DOMAIN peer_info :
           peer_info[a].num_of_outstanding_get_data_requests = INV_PER_GET_DATA_REQUEST

\* A tick has asked two peers for all 9 items between them.
C21_WitnessAll ==
    /\ last.op = "tick"
    /\ inventory_to_be_synced = {}
    /\ Cardinality(Dispatched(last.sent)) = INV_PER_GET_DATA_REQUEST + 1
    /\ \E a \in DOMAIN peer_info : peer_info[a].num_of_outstanding_get_data_requests = 1

\* A tick has asked the one tracked peer for the 2 items to be synced.
C21_WitnessOnePeer ==
    /\ last.op = "tick"
    /\ inventory_to_be_synced = {}
    /\ Cardinality(DOMAIN peer_info) = 1
    /\ Cardinality(Dispatched(last.sent)) = 2
    /\ \A a \in DOMAIN peer_info :
           /\ peer_info[a].num_of_outstanding_get_data_requests = 2
           /\ RequestsTo(get_data_request_info, a) = Dispatched(last.sent)

\* The requests a tick finds pending: younger than the timeout and sent to
\* a peer that stays connected.
PendingAtTick ==
    {inv \in DOMAIN get_data_request_info :
        /\ inv \notin Expired(get_data_request_info, clock)
        /\ get_data_request_info[inv].socket \in Range(last'.conns)}

\* The number of items in the GetData commands a tick has sent.
RECURSIVE ItemsSent(_)
ItemsSent(sent) ==
    IF sent = <<>> THEN 0
    ELSE (IF Head(sent).message = "GetData" THEN Cardinality(Head(sent).inventory) ELSE 0)
             + ItemsSent(Tail(sent))

\* C22: a tick does not ask for an item that has a pending request and does
\* not ask two peers, or one peer twice, for the same item; the pending
\* requests stay as they are.
C22_NoDuplicateRequest ==
    [][ TickStep =>
          /\ Dispatched(last'.sent) \cap PendingAtTick = {}
          /\ \A a, b \in SyncAddrs :
                 a # b => SentTo(last'.sent, a) \cap SentTo(last'.sent, b) = {}
          /\ ItemsSent(last'.sent) = Cardinality(Dispatched(last'.sent))
          /\ \A inv \in PendingAtTick :
                 /\ inv \in DOMAIN get_data_request_info'
                 /\ get_data_request_info'[inv] = get_data_request_info[inv]
      ]_vars

\* C22: every recorded request is recorded under its own item, so an item
\* has at most one request and is outstanding at one peer at most.
C22_OneRequestPerItem ==
    \A inv \in DOMAIN get_data_request_info :
        /\ get_data_request_info[inv].inventory = inv
        /\ Cardinality({a \in SyncAddrs : inv \in RequestsTo(get_data_request_info, a)}) = 1

\* C22: no item is asked for while a request for it is pending.
C22_SingleFetch == []C22_OneRequestPerItem /\ C22_NoDuplicateRequest

\* A tick has asked a peer for one item while 8 requests are recorded at
\* another peer, which was asked for nothing.
C22_Witness ==
    /\ last.op = "tick"
    /\ Cardinality(Dispatched(last.sent)) = 1
    /\ \E a, b \in DOMAIN peer_info :
           /\ a # b
           /\ SentTo(last.sent, b) # {}
           /\ Cardinality(RequestsTo(get_data_request_info, a)) = INV_PER_GET_DATA_REQUEST
           /\ SentTo(last.sent, a) = {}

\* The connected addresses a tick finds untracked, in the order of the
\* connections.
NewPeers(conns) ==
    LET untracked(a) == a \notin DOMAIN peer_info
    IN  SelectSeq(conns, untracked)

\* The command add_peer queues.
InitialGetHeaders(a) == GetHeadersCommand(a, << <<GenesisHash>>, NullHash >>)

\* C23: after a tick the tracked peers are the connected addresses; no
\* getdata request sent to a removed peer is recorded; every connected
\* address that was not tracked is set up as by add_peer and its GetHeaders
\* is sent after the commands that were queued, and the peers that stay keep
\* their header state.
C23_Reconcile ==
    [][ TickStep =>
          LET conns == last'.conns
              new == NewPeers(conns)
              old == Len(outgoing_command_queue)
          IN  /\ DOMAIN peer_info' = Range(conns)
              /\ \A inv \in DOMAIN get_data_request_info' :
                     get_data_request_info'[inv].socket \in Range(conns)
              /\ Len(last'.sent) >= old + Len(new)
              /\ SubSeq(last'.sent, 1, old) = outgoing_command_queue
              /\ \A i \in 1..Len(new) :
                     /\ last'.sent[old + i] = InitialGetHeaders(new[i])
                     /\ peer_info'[new[i]] =
                            [socket |-> new[i], height |-> 0, tip |-> GenesisHash,
                             last_asked |-> Some(<< <<GenesisHash>>, NullHash >>),
                             sent_at |-> Some(clock), on_timeout |-> "Disconnect",
                             num_of_outstanding_get_data_requests |->
                                 Cardinality(SentTo(last'.sent, new[i]))]
              /\ \A i \in (old + Len(new) + 1)..Len(last'.sent) :
                     last'.sent[i].message = "GetData"
              /\ \A a \in Range(conns) \cap DOMAIN peer_info :
                     [peer_info'[a] EXCEPT !.num_of_outstanding_get_data_requests = 0]
                         = [peer_info[a] EXCEPT !.num_of_outstanding_get_data_requests = 0]
      ]_vars

\* A tick has removed one peer, whose getdata requests are gone, and added
\* the other.
C23_Witness ==
    /\ last.op = "tick" /\ last.requests_changed
    /\ Len(last.conns) = 1
    /\ DOMAIN peer_info = Range(last.conns)
    /\ \E i \in 1..Len(last.sent) : last.sent[i] = InitialGetHeaders(last.conns[1])
    /\ \A i \in 1..Len(last.sent) : last.sent[i].message = "GetHeaders"
    /\ get_data_request_info = <<>>
    /\ inventory_to_be_synced = {}

\* A tick has added two peers.
C23_WitnessTwo ==
    /\ last.op = "tick"
    /\ Len(last.conns) = 2
    /\ \A a \in Range(last.conns) :
           \E i \in 1..Len(last.sent) : last.sent[i] = InitialGetHeaders(a)

\* s is the beginning of t.
IsPrefix(s, t) == Len(s) <= Len(t) /\ SubSeq(t, 1, Len(s)) = s

C24_WitnessQueued ==
    /\ last.op = "received_inv_message"
    /\ Len(outgoing_command_queue) = 1
    /\ last.sent = <<>>

\* The k-th ancestor of h by prev_blockhash, NullHash when there is none.
RECURSIVE Ancestor(_, _, _)
Ancestor(hc, h, k) ==
    IF h \notin DOMAIN hc THEN NullHash
    ELSE IF k = 0 THEN h
    ELSE Ancestor(hc, hc[h].header.prev_blockhash, k - 1)

\* The cached headers that are 1 to depth child steps below one of ids and
\* are not among ids.
Descendants(hc, ids, depth) ==
    {h \in DOMAIN hc \ ids : \E k \in 1..depth : Ancestor(hc, h, k) \in ids}

\* C25: handle_client_request(ids) returns a block exactly when a child of
\* one of ids that is not itself among ids has its block cached, and the
\* block it returns is the cached block of such a child.
C25_ImmediateSuccessor ==
    [][ (last'.op = "handle_client_request" /\ clock' = clock) =>
          LET immediate == Descendants(header_cache, last'.hashes, 1)
          IN  /\ (last'.block # None) <=> (immediate \cap DOMAIN block_cache # {})
              /\ last'.block # None =>
                     /\ last'.block[1].header.hash \in immediate
                     /\ last'.block[1].header.hash \notin last'.hashes
                     /\ block_cache[last'.block[1].header.hash] = last'.block[1]
      ]_vars

\* A call has returned the block of a child while the block of a requested
\* hash was cached (and has been pruned) and the block of a grandchild is
\* cached.
C25_Witness ==
    /\ last.op = "handle_client_request" /\ last.store_changed
    /\ last.hashes = {MainHash(1)}
    /\ last.block # None /\ last.block[1].header.hash = MainHash(2)
    /\ MainHash(3) \in DOMAIN block_cache

\* A call has returned nothing while the block of a requested hash was
\* cached and the block of a grandchild is cached.
C25_WitnessNone ==
    /\ last.op = "handle_client_request" /\ last.store_changed
    /\ last.hashes = {MainHash(1)}
    /\ last.block = None
    /\ MainHash(3) \in DOMAIN block_cache

\* A call for two hashes has returned the block of a child of one of them.
C25_WitnessTwo ==
    /\ last.op = "handle_client_request"
    /\ last.hashes = {GenesisHash, MainHash(1)}
    /\ last.block # None
    /\ last.block[1].header.hash \in {MainHash(2), HeavyHash}

\* C26: after handle_client_request(ids) the inventory to be synced is what
\* it was and the blocks of D less R, D being the headers 1 to 5 child
\* steps below ids that are not among ids and R the children of ids whose
\* block was cached; the blocks of ids are no longer cached, the other
\* cached blocks and the header tree are as before.
C26_Frontier ==
    [][ (last'.op = "handle_client_request" /\ clock' = clock) =>
          LET ids == last'.hashes
              D == Descendants(header_cache, ids, FUTURE_SUCCESSORS_DEPTH)
              R == Descendants(header_cache, ids, 1) \cap DOMAIN block_cache
          IN  /\ inventory_to_be_synced' =
                     inventory_to_be_synced \cup {InvBlock(h) : h \in D \ R}
              /\ blockchain'.block_cache = map_remove(block_cache, ids)
              /\ blockchain'.header_cache = header_cache
              /\ blockchain'.children = children
              /\ blockchain'.tips = tips
              /\ peer_info' = peer_info
              /\ get_data_request_info' = get_data_request_info
              /\ outgoing_command_queue' = outgoing_command_queue
      ]_vars

\* The request for genesis has added the headers up to 5 steps below it,
\* less the two children whose blocks were cached; the header 6 steps below
\* and a cached grandchild are treated as the statement says.
C26_Witness ==
    /\ last.op = "handle_client_request" /\ last.hashes = {GenesisHash}
    /\ {MainHash(1), HeavyHash, MainHash(2)} \subseteq DOMAIN block_cache
    /\ inventory_to_be_synced =
           {InvBlock(h) : h \in {MainHash(2), MainHash(3), MainHash(4), MainHash(5),
                                 ForkHash(1), ForkHash(2), ForkHash(3)}}

\* The request for a header and its child has added the other child and the
\* grandchildren, as in the test of get_successor_block_hashes.
C26_WitnessTwo ==
    /\ last.op = "handle_client_request"
    /\ last.hashes = {MainHash(ForkAt), MainHash(ForkAt + 1)}
    /\ last.store_changed
    /\ inventory_to_be_synced =
           {InvBlock(h) : h \in {MainHash(4), MainHash(5), ForkHash(1), ForkHash(2),
                                 ForkHash(3), ForkHash(4)}}

\* The peer has a GetHeaders request that was sent more than the request
\* timeout ago.
HeadersRequestTimedOut(peer) ==
    /\ peer.last_asked # None
    /\ peer.sent_at # None
    /\ peer.sent_at[1] + GETDATA_REQUEST_TIMEOUT_SECS < clock

\* C27: a tick at which a connected peer's GetHeaders request has timed out
\* drops the peer if the request was sent with OnTimeout::Disconnect and
\* clears the peer's request if it was sent with OnTimeout::Ignore.
C27_HeadersTimeout ==
    [][ TickStep =>
          \A a \in DOMAIN peer_info \cap Range(last'.conns) :
              HeadersRequestTimedOut(peer_info[a]) =>
                  IF peer_info[a].on_timeout = "Disconnect"
                  THEN a \notin DOMAIN peer_info'
                  ELSE a \in DOMAIN peer_info' /\ peer_info'[a].last_asked = None
      ]_vars

\* C27 for the requests sent with OnTimeout::Ignore alone.
C27_HeadersTimeoutIgnore ==
    [][ TickStep =>
          \A a \in DOMAIN peer_info \cap Range(last'.conns) :
              (HeadersRequestTimedOut(peer_info[a]) /\ peer_info[a].on_timeout = "Ignore")
                  => a \in DOMAIN peer_info' /\ peer_info'[a].last_asked = None
      ]_vars

\* A tick has run and a peer's GetHeaders request, sent with
\* OnTimeout::Disconnect more than the timeout ago, is still recorded.
C27_WitnessDisconnect ==
    /\ last.op = "tick"
    /\ \E a \in DOMAIN peer_info :
           HeadersRequestTimedOut(peer_info[a]) /\ peer_info[a].on_timeout = "Disconnect"

\* The same for a request sent with OnTimeout::Ignore.
C27_WitnessIgnore ==
    /\ last.op = "tick"
    /\ \E a \in DOMAIN peer_info :
           HeadersRequestTimedOut(peer_info[a]) /\ peer_info[a].on_timeout = "Ignore"

\* The positions of the tips of maximal work.
MaxWorkTips ==
    {i \in 1..Len(tips) : \A j \in 1..Len(tips) : tips[j].work <= tips[i].work}

\* The last call was add_header and the header it added is one of several
\* tips of maximal work.
AddedTiedTip ==
    /\ last.op = "add_header" /\ last.tag = "HeaderAdded"
    /\ Cardinality(MaxWorkTips) >= 2
    /\ \E i \in MaxWorkTips : tips[i].header.hash = last.headers[1].hash

\* C28 as stated: of several tips of maximal work the active tip is the one
\* whose header was accepted earliest. The header the last call accepted is
\* the latest accepted of all, so when it ties with another tip it is not
\* the active tip.
C28_EarliestAccepted ==
    AddedTiedTip => get_active_chain_tip(blockchain).header.hash # last.headers[1].hash

\* C28: of several tips of maximal work the active tip is the one that
\* comes first in the list of tips.
C28_FirstInTips ==
    \A i \in MaxWorkTips :
        (\A j \in MaxWorkTips : i <= j) => get_active_chain_tip(blockchain) = tips[i]

\* The header accepted last ties with a tip accepted before it and is the
\* active tip: it has taken its parent's place, which comes first.
C28_Witness ==
    /\ AddedTiedTip
    /\ get_active_chain_tip(blockchain).header.hash = last.headers[1].hash

\* The header accepted last ties with the active tip.
C28_WitnessEarlier ==
    /\ AddedTiedTip
    /\ get_active_chain_tip(blockchain).header.hash # last.headers[1].hash

\* Three tips tie.
C28_WitnessThree ==
    /\ Cardinality(MaxWorkTips) = 3
    /\ get_active_chain_tip(blockchain) = tips[1]

\* C29: add_block of a block whose header is not cached, whose parent is
\* cached and whose body is not valid returns InvalidBlock and caches no
\* body, and the header is cached: at its parent's height plus one and its
\* parent's work plus its own, last of its parent's children, and a tip in
\* its parent's place or, if the parent was no tip, at the end of the tips.
C29_InvalidBody ==
    [][ ( /\ last'.op = "add_block"
          /\ last'.blocks[1].header.hash \notin DOMAIN header_cache
          /\ last'.blocks[1].header.prev_blockhash \in DOMAIN header_cache
          /\ ~last'.blocks[1].merkle_ok ) =>
          LET header == last'.blocks[1].header
              prev == header_cache[header.prev_blockhash]
              cached == [header |-> header, height |-> prev.height + 1,
                         work |-> prev.work + header.work]
              siblings == IF header.prev_blockhash \in DOMAIN children
                          THEN children[header.prev_blockhash] ELSE <<>>
              at == {i \in 1..Len(tips) : tips[i].header.hash = header.prev_blockhash}
          IN  /\ ~last'.ok /\ last'.tag = "InvalidBlock"
              /\ blockchain'.block_cache = block_cache
              /\ blockchain'.header_cache = map_insert(header_cache, header.hash, cached)
              /\ blockchain'.children =
                     map_insert(map_remove(children, {header.prev_blockhash}),
                                header.prev_blockhash, Append(siblings, header.hash))
              /\ IF at # {}
                 THEN blockchain'.tips =
                          [i \in 1..Len(tips) |-> IF i \in at THEN cached ELSE tips[i]]
                 ELSE blockchain'.tips = Append(tips, cached)
      ]_vars

\* add_block has returned InvalidBlock for a block whose header it has
\* cached as a second child of genesis and a second tip.
C29_Witness ==
    /\ last.op = "add_block" /\ last.tag = "InvalidBlock" /\ last.store_changed
    /\ last.blocks[1].header.hash \in DOMAIN header_cache
    /\ last.blocks[1].header.hash \notin DOMAIN block_cache
    /\ Len(children[last.blocks[1].header.prev_blockhash]) = 2
    /\ Len(tips) = 2
    /\ tips[2].header.hash = last.blocks[1].header.hash

\* add_block has returned InvalidBlock for a block whose header it has
\* cached in the place of its parent among the tips.
C29_WitnessReplaced ==
    /\ last.op = "add_block" /\ last.tag = "InvalidBlock" /\ last.store_changed
    /\ last.blocks[1].header.hash \notin DOMAIN block_cache
    /\ Len(tips) = 1
    /\ tips[1].header.hash = last.blocks[1].header.hash
    /\ tips[1].height = 2

\* The k-th ancestor of h by prev_blockhash, found by walking half of the way
\* and then the rest; NullHash when there is none.
RECURSIVE AncestorAt(_, _, _)
AncestorAt(hc, h, k) ==
    IF h \notin DOMAIN hc THEN NullHash
    ELSE IF k = 0 THEN h
    ELSE IF k = 1 THEN hc[h].header.prev_blockhash
    ELSE AncestorAt(hc, AncestorAt(hc, h, k \div 2), k - (k \div 2))

\* The height gap after the k-th locator hash: 1 after each of the first 8,
\* then 2, 4, 8, ...
LocatorGap(k) == IF k <= 8 THEN 1 ELSE 2 ^ (k - 8)

C30_WitnessFork ==
    /\ last.op = "locator_hashes"
    /\ get_active_chain_tip(blockchain).header.hash = LocatorForkHash
    /\ LocatorSmall \in DOMAIN header_cache
    /\ last.locators =
           <<LocatorForkHash, LocatorForkAt, LocatorForkAt - 1, LocatorForkAt - 2,
             LocatorForkAt - 3, LocatorForkAt - 4, LocatorForkAt - 5, LocatorForkAt - 6,
             LocatorForkAt - 7, LocatorForkAt - 9, GenesisHash>>

\* 22 hashes with all the gaps and genesis after them.
C30_WitnessLong ==
    /\ last.op = "locator_hashes"
    /\ Len(last.locators) = LOCATOR_ROUNDS + 1
    /\ header_cache[last.locators[LOCATOR_ROUNDS]].height
           = get_active_chain_tip(blockchain).height - 8 - (2 ^ 14 - 2)
    /\ header_cache[last.locators[LOCATOR_ROUNDS]].height > 2 ^ 14

\* The hash of the last header of the message the last call received.
LastOfMessage(call) ==
    IF call.headers # <<>> THEN call.headers[Len(call.headers)].hash ELSE GenesisHash

\* C31: when received_headers_message succeeds on a message of exactly 2000
\* headers that the store adds without error, one GetHeaders command is
\* queued to the peer, with the hash of the last header added (the last
\* header of the message when all were cached) as its only locator and the
\* null stop hash, and the peer's request is that one.
C31_Continuation ==
    [][ ( /\ last'.op = "received_headers_message" /\ last'.ok
          /\ last'.pad + Len(last'.headers) = MAX_HEADERS_SIZE
          /\ add_headers(blockchain, last'.headers).err = None ) =>
          LET added == add_headers(blockchain, last'.headers).added
              last_hash == IF added # <<>> THEN added[Len(added)].header.hash
                           ELSE LastOfMessage(last')
              locators == << <<last_hash>>, NullHash >>
          IN  /\ outgoing_command_queue' =
                     Append(outgoing_command_queue, GetHeadersCommand(last'.addr, locators))
              /\ peer_info'[last'.addr].last_asked = Some(locators)
              /\ peer_info'[last'.addr].on_timeout = "Ignore"
      ]_vars

\* A message of 2000 headers has added the main chain's first header and
\* the continuation is queued, while the store's locator hashes are two.
C31_Witness ==
    /\ last.op = "received_headers_message" /\ last.ok /\ last.store_changed
    /\ last.pad + Len(last.headers) = MAX_HEADERS_SIZE
    /\ Len(locator_hashes(blockchain)) = 2
    /\ outgoing_command_queue =
           <<GetHeadersCommand(last.addr, << <<MainHash(1)>>, NullHash >>)>>

\* A message of 2000 headers that were all cached, the store holding a
\* header above the last of the message.
C31_WitnessKnown ==
    /\ last.op = "received_headers_message" /\ last.ok /\ ~last.store_changed
    /\ last.pad + Len(last.headers) = MAX_HEADERS_SIZE
    /\ MainHash(2) \in DOMAIN header_cache
    /\ outgoing_command_queue =
           <<GetHeadersCommand(last.addr, << <<MainHash(1)>>, NullHash >>)>>

\* C32: when the store answers PrevHeaderNotCached for a header of the
\* message, received_headers_message returns Ok, the headers before that
\* header are cached, and one GetHeaders command is queued to the peer with
\* the locator hashes of the store as it is then and the hash of that header
\* as stop hash; the peer's request is that one.
C32_Corrective ==
    [][ ( /\ last'.op = "received_headers_message"
          /\ last'.tag \notin {"UnknownPeer", "ReceivedTooManyUnsolicitedHeaders",
                               "ReceivedTooManyHeaders"}
          /\ add_headers(blockchain, last'.headers).err # None
          /\ add_headers(blockchain, last'.headers).err[1].tag = "PrevHeaderNotCached" ) =>
          LET r == add_headers(blockchain, last'.headers)
              locators == <<locator_hashes(blockchain'), r.err[1].hash>>
          IN  /\ last'.ok
              /\ blockchain' = r.state
              /\ \A i \in 1..Len(r.added) : r.added[i].header.hash \in DOMAIN blockchain'.header_cache
              /\ r.err[1].hash \notin DOMAIN blockchain'.header_cache
              /\ outgoing_command_queue' =
                     Append(outgoing_command_queue, GetHeadersCommand(last'.addr, locators))
              /\ peer_info'[last'.addr].last_asked = Some(locators)
              /\ peer_info'[last'.addr].on_timeout = "Ignore"
      ]_vars

\* A message has added the main chain's first header and stopped at a
\* header without a cached parent: the command queued carries the locator
\* hashes from the new tip and that header as stop hash.
C32_Witness ==
    /\ last.op = "received_headers_message" /\ last.ok /\ last.store_changed
    /\ last.headers = <<BlockHeader(MainHash(1)), BlockHeader(OrphanHash)>>
    /\ outgoing_command_queue =
           <<GetHeadersCommand(last.addr, << <<MainHash(1), GenesisHash>>, OrphanHash >>)>>
    /\ peer_info[last.addr].last_asked = Some(<< <<MainHash(1), GenesisHash>>, OrphanHash >>)

\* The first header of a message has no cached parent: nothing is added
\* and the request with that header as stop hash is queued.
C32_WitnessFirst ==
    /\ last.op = "received_headers_message" /\ last.ok /\ ~last.store_changed
    /\ last.headers = <<BlockHeader(MainHash(2))>> /\ last.pad = 0
    /\ MainHash(1) \notin DOMAIN header_cache
    /\ peer_info[last.addr].last_asked # None
    /\ Len(outgoing_command_queue) = 1
    /\ outgoing_command_queue[1].stop_hash = MainHash(2)

\* The positions of the blocks of an inventory that the store has no
\* header for.
UnknownBlocks(inventory) ==
    {i \in 1..Len(inventory) :
        inventory[i].kind = "Block" /\ inventory[i].hash \notin DOMAIN header_cache}

\* C33: received_inv_message from a tracked peer with at most MAX_INV_SIZE
\* items returns Ok and queues a GetHeaders command to the peer exactly when
\* a block of the message is not a cached header: with the store's locator
\* hashes, the active tip first and genesis last, the (last) unknown block
\* as stop hash, recorded on the peer with OnTimeout::Ignore. When every
\* block is cached nothing is queued and the peer's request is as before.
C33_InvRequest ==
    [][ ( /\ last'.op = "received_inv_message" /\ clock' = clock
          /\ last'.addr \in DOMAIN peer_info
          /\ last'.pad + Len(last'.inventory) <= MAX_INV_SIZE ) =>
          LET addr == last'.addr
              unknown == UnknownBlocks(last'.inventory)
              stop == last'.inventory[CHOOSE i \in unknown : \A j \in unknown : j <= i].hash
              locators == <<locator_hashes(blockchain), stop>>
          IN  /\ last'.ok
              /\ blockchain' = blockchain
              /\ IF unknown # {}
                 THEN /\ outgoing_command_queue' =
                             Append(outgoing_command_queue, GetHeadersCommand(addr, locators))
                      /\ locators[1][1] = get_active_chain_tip(blockchain).header.hash
                      /\ locators[1][Len(locators[1])] = GenesisHash
                      /\ peer_info'[addr].last_asked = Some(locators)
                      /\ peer_info'[addr].sent_at = Some(clock)
                      /\ peer_info'[addr].on_timeout = "Ignore"
                 ELSE /\ outgoing_command_queue' = outgoing_command_queue
                      /\ peer_info'[addr].last_asked = peer_info[addr].last_asked
                      /\ peer_info'[addr].sent_at = peer_info[addr].sent_at
                      /\ peer_info'[addr].on_timeout = peer_info[addr].on_timeout
      ]_vars

\* An inv message with two unknown blocks has queued a request with the
\* second as stop hash, from a store of three headers.
C33_Witness ==
    /\ last.op = "received_inv_message" /\ last.ok
    /\ last.inventory = <<InvBlock(OrphanHash), InvBlock(MainHash(2))>>
    /\ MainHash(1) \in DOMAIN header_cache /\ MainHash(2) \notin DOMAIN header_cache
    /\ outgoing_command_queue =
           <<GetHeadersCommand(last.addr, << <<MainHash(1), GenesisHash>>, MainHash(2) >>)>>
    /\ peer_info[last.addr].on_timeout = "Ignore"

\* An inv message whose blocks are all cached has queued nothing and the
\* request add_peer recorded stands.
C33_WitnessKnown ==
    /\ last.op = "received_inv_message" /\ last.ok
    /\ last.inventory = <<InvBlock(MainHash(1))>>
    /\ MainHash(1) \in DOMAIN header_cache
    /\ outgoing_command_queue = <<>>
    /\ peer_info[last.addr].on_timeout = "Disconnect"
    /\ peer_info[last.addr].last_asked # None

\* An inv message of MAX_INV_SIZE items with an unknown block at its end.
C33_WitnessLong ==
    /\ last.op = "received_inv_message" /\ last.ok
    /\ last.pad + Len(last.inventory) = MAX_INV_SIZE
    /\ Len(outgoing_command_queue) = 1
    /\ outgoing_command_queue[1].stop_hash = MainHash(1)

\* The header received_headers_message takes as the peer's last: the last
\* one add_headers added or, when it added none, the last of the message
\* when the store has it.
LastHeaderOf(call) ==
    LET r == add_headers(blockchain, call.headers)
    IN  IF r.added # <<>> THEN Some(r.added[Len(r.added)])
        ELSE get_header(r.state, LastOfMessage(call))

\* C34: the height recorded for a peer that stays in peer_info never goes
\* down, and it changes only in received_headers_message from that peer,
\* which sets the peer's height and tip to those of the last header added
\* (or of the cached last header of the message) exactly when that height
\* is strictly greater than the one recorded.
C34_HeightMonotone ==
    [][ \A addr \in DOMAIN peer_info \cap DOMAIN peer_info' :
          LET peer == peer_info[addr]
              after == peer_info'[addr]
              handled == /\ last'.op = "received_headers_message" /\ clock' = clock
                         /\ last'.addr = addr
                         /\ last'.tag \in {"Ok", "ReceivedInvalidHeader"}
                         /\ last'.pad + Len(last'.headers) > 0
          IN  /\ after.height >= peer.height
              /\ after.height # peer.height => handled
              /\ handled =>
                    LET h == LastHeaderOf(last')
                    IN  IF h # None /\ h[1].height > peer.height
                        THEN after.height = h[1].height /\ after.tip = h[1].header.hash
                        ELSE after.height = peer.height /\ after.tip = peer.tip
      ]_vars

\* A peer recorded at height 2 has sent a message whose last header is the
\* cached header of height 1; the record stands.
C34_Witness ==
    /\ last.op = "received_headers_message" /\ last.ok
    /\ last.headers = <<BlockHeader(MainHash(1))>>
    /\ peer_info[last.addr].height = 2
    /\ peer_info[last.addr].tip = MainHash(2)

\* A message whose only header is the second of the main chain, which the
\* store had already, leaves the peer recorded at that header.
C34_WitnessRaised ==
    /\ last.op = "received_headers_message" /\ last.ok
    /\ last.headers = <<BlockHeader(MainHash(2))>>
    /\ ~last.store_changed
    /\ peer_info[last.addr].height = 2
    /\ peer_info[last.addr].tip = MainHash(2)

\* C35: the count of outstanding requests of every peer in peer_info is the
\* number of entries of get_data_request_info sent to it.
C35_CounterMatches ==
    \A addr \in DOMAIN peer_info :
        peer_info[addr].num_of_outstanding_get_data_requests = Cardinality(RequestsTo(get_data_request_info, addr))

C37_RequestsToTrackedPeers ==
    \A inv \in DOMAIN get_data_request_info :
        get_data_request_info[inv].socket \in DOMAIN peer_info

\* remove_peer has dropped the requests sent to the peer it removed, and a
\* request sent to the other peer is still recorded.
C37_Witness ==
    /\ last.op = "remove_peer" /\ last.requests_changed
    /\ last.addr \notin DOMAIN peer_info
    /\ get_data_request_info # << >>

\* A tick has removed a peer that is no longer connected together with the
\* requests sent to it.
C37_WitnessTick ==
    /\ last.op = "tick" /\ last.requests_changed
    /\ peer_info = << >>
    /\ get_data_request_info = << >>
    /\ inventory_to_be_synced = {}

\* The items that are to be fetched: to be synced or asked for.
FetchWork(to_be_synced, info) == to_be_synced \cup DOMAIN info

\* C38: an item that is to be synced or has a getdata request recorded, and
\* whose block the store does not hold after the step, is still to be
\* synced or has a request recorded after the step.
C38_NoWorkLost ==
    [][ \A inv \in FetchWork(inventory_to_be_synced, get_data_request_info) :
            get_block(blockchain', inv.hash) = None =>
                inv \in FetchWork(inventory_to_be_synced', get_data_request_info')
      ]_vars

\* C39: when tick is called again and again, a peer stays connected and
\* every request is answered with the valid block before it times out,
\* every item that is to be synced has its block in the store at some later
\* time, and once the client asks no more, inventory_to_be_synced and
\* get_data_request_info end up empty.
C39_EveryItemFetched ==
    /\ \A inv \in LiveItems :
           (inv \in inventory_to_be_synced) ~> (get_block(blockchain, inv.hash) # None)
    /\ <>[][last'.op # "handle_client_request"]_vars =>
           <>[](inventory_to_be_synced = {} /\ get_data_request_info = << >>)

\* The same holds under SpecStable, where no peer is removed while a
\* request sent to it is recorded.
C39_FetchedWithoutRemoval ==
    \A inv \in LiveItems :
        (inv \in inventory_to_be_synced \/ inv \in DOMAIN get_data_request_info)
            ~> (get_block(blockchain, inv.hash) # None)

\* The work of the active tip, and the greatest work of a cached header.
ActiveWork(bc) == get_active_chain_tip(bc).work

MaxCachedWork(bc) ==
    CHOOSE w \in {bc.header_cache[h].work : h \in DOMAIN bc.header_cache} :
        \A h \in DOMAIN bc.header_cache : bc.header_cache[h].work <= w

\* C40: the work of the active tip is the greatest work of any cached
\* header in every state, and no step makes it smaller.
C40_ActiveWork ==
    /\ [](ActiveWork(blockchain) = MaxCachedWork(blockchain))
    /\ [][ActiveWork(blockchain') >= ActiveWork(blockchain)]_vars

\* The heavy header, of height 1, is the active tip while the main chain
\* and the fork reach further: the greatest work is not at the greatest
\* height, and the tip added last did not become the active one.
C40_Witness ==
    /\ get_active_chain_tip(blockchain).header.hash = HeavyHash
    /\ Len(tips) = 3
    /\ tips[Len(tips)].header.hash # HeavyHash
    /\ last.op = "add_header" /\ last.ok

\* The main chain has overtaken the heavy header.
C40_WitnessOvertaken ==
    /\ HeavyHash \in DOMAIN header_cache
    /\ get_active_chain_tip(blockchain).work > header_cache[HeavyHash].work

====
